---- MODULE Spec2Model ----
(***************************************************************************)
(* Acquisition pipeline of PF-Repo (downloader.py, web_api.py,             *)
(* src/backend/shared_functions.py): the quality resolver, the transfer    *)
(* executor with its provider branches and fallbacks, the progress         *)
(* callback, the Active-Transfer Registry and the completion notifier.     *)
(* Further: the bulk operations (model, playlist, search, URL batch), the  *)
(* metadata normalizer load_video_attributes, the URL classification of    *)
(* check_video, the enumeration of _get_video_generator and the fetch-only *)
(* generator fetch_videos_from_source, each with a specification of its    *)
(* own.                                                                    *)
(*                                                                         *)
(* Quality tokens are sequences of one-character strings, so that str.strip,*)
(* str.lower, substring tests and the two regular expressions of the       *)
(* resolver are computed on the characters, as the code computes them.     *)
(***************************************************************************)
EXTENDS Integers, Sequences, FiniteSets, TLC

VARIABLES
    active_downloads,   \* HeadlessDownloader.active_downloads: id -> entry
    fs,                 \* the files of the download directory and the temp directories
    conf,               \* skip_existing_files, write_metadata (and remux)
    clock,              \* time.time(), in ticks
    pc,                 \* position of each download_video_by_url call
    frame,              \* locals of download_video_by_url / perform_download
    cb,                 \* the running progress_callback invocation of each transfer
    calls,              \* provider transfer invocations made so far, per transfer
    notified,           \* registration requests posted by register_with_main_app
    hist,               \* per transfer: what has been observed so far
    outcome,            \* what download_video_by_url handed to its caller
    resolve_in,         \* arguments of a stand-alone resolver call
    resolve_out,        \* its result
    settings,           \* self.ignore_errors, self.result_limit, config.request_delay
    bulk,               \* a running bulk operation (model, playlist, search, URL batch)
    norm,               \* a call of load_video_attributes
    cls,                \* a call of check_video
    gen,                \* a call of _get_video_generator
    fetch               \* a call of fetch_videos_from_source

vars == <<active_downloads, fs, conf, clock, pc, frame, cb, calls, notified, hist,
          outcome, resolve_in, resolve_out, settings, bulk, norm, cls, gen, fetch>>

(***************************************************************************)
(* Bounds of the model.                                                    *)
(***************************************************************************)
\* longest available-quality list drawn as an input of the resolver
MaxAvail == 2
\* progress callbacks a provider issues for one transfer
MaxCallbacks == 1
\* largest position a progress callback reports
MaxPos == 1
\* largest result_limit / limit of a search or a fetch
MaxLimit == 2
\* most items one enumeration yields, most URLs of one batch
MaxItems == 3
\* most videos one listing of a provider yields
MaxResults == 2
\* most names in the providers list of a search
MaxProviders == 2
\* last tick of the wall clock (one tick is 1/TicksPerSecond seconds)
MaxTime == 1

(***************************************************************************)
(* Characters and strings.                                                 *)
(***************************************************************************)
Digits == <<"0", "1", "2", "3", "4", "5", "6", "7", "8", "9">>

IsDigit(c) == \E i \in 1..10 : Digits[i] = c

DigitVal(c) == (CHOOSE i \in 1..10 : Digits[i] = c) - 1

\* str.lower on the letters the tokens of the model use
LowerChar(c) ==
    CASE c = "P" -> "p"
      [] c = "H" -> "h"
      [] c = "I" -> "i"
      [] c = "G" -> "g"
      [] c = "L" -> "l"
      [] c = "O" -> "o"
      [] c = "W" -> "w"
      [] c = "K" -> "k"
      [] OTHER -> c

Lower(s) == [i \in 1..Len(s) |-> LowerChar(s[i])]

IsSpace(c) == c = " "

RECURSIVE LStrip(_)
LStrip(s) == IF s # <<>> /\ IsSpace(Head(s)) THEN LStrip(Tail(s)) ELSE s

RECURSIVE RStrip(_)
RStrip(s) ==
    IF s # <<>> /\ IsSpace(s[Len(s)]) THEN RStrip(SubSeq(s, 1, Len(s) - 1)) ELSE s

\* str.strip()
Strip(s) == RStrip(LStrip(s))

\* Python's `sub in s` on strings
Contains(s, sub) ==
    \E i \in 1..(Len(s) - Len(sub) + 1) : SubSeq(s, i, i + Len(sub) - 1) = sub

\* int() of a non-empty string of decimal digits
RECURSIVE ParseInt(_)
ParseInt(ds) ==
    IF ds = <<>> THEN 0
    ELSE 10 * ParseInt(SubSeq(ds, 1, Len(ds) - 1)) + DigitVal(ds[Len(ds)])

\* re.search(r'(\d+)', s).group(1): the first maximal run of digits, <<>> if none
FirstDigitRun(s) ==
    IF \A i \in 1..Len(s) : ~IsDigit(s[i]) THEN <<>>
    ELSE LET a == CHOOSE i \in 1..Len(s) :
                      IsDigit(s[i]) /\ \A j \in 1..(i - 1) : ~IsDigit(s[j])
             b == CHOOSE k \in a..Len(s) :
                      /\ \A j \in a..k : IsDigit(s[j])
                      /\ (k = Len(s) \/ ~IsDigit(s[k + 1]))
         IN  SubSeq(s, a, b)

\* re.sub(r'[^0-9]', '', s): every digit of s, in order
OnlyDigits(s) == SelectSeq(s, IsDigit)

(***************************************************************************)
(* Quality tokens.                                                         *)
(***************************************************************************)
best == <<"b", "e", "s", "t">>
half == <<"h", "a", "l", "f">>
worst == <<"w", "o", "r", "s", "t">>
TierTokens == {best, half, worst}

q2160p == <<"2", "1", "6", "0", "p">>
q1440p == <<"1", "4", "4", "0", "p">>
q1080p == <<"1", "0", "8", "0", "p">>
q720p == <<"7", "2", "0", "p">>
q540p == <<"5", "4", "0", "p">>
q480p == <<"4", "8", "0", "p">>
q360p == <<"3", "6", "0", "p">>
q720P == <<"7", "2", "0", "P">>
q720p60 == <<"7", "2", "0", "p", "6", "0">>
qHigh == <<"h", "i", "g", "h">>
qLow == <<"l", "o", "w">>
qHD == <<"H", "D">>
qPadded == <<" ", "4", "8", "0", "p", " ">>
qBlank == <<" ">>
qEmpty == <<>>

\* the tokens a provider may list for a video
AvailTokens ==
    {best, half, worst, q1080p, q720p, q480p, q720P, q720p60,
     qHigh, qLow, qHD, qPadded, qBlank, qEmpty}

\* the tokens a request may name
RequestTokens ==
    {best, half, worst, q2160p, q1080p, q720p, q540p, q480p, q360p, q720P,
     qHigh, qHD, qEmpty}

SeqsUpTo(S, n) == UNION {[1..k -> S] : k \in 0..n}

Range(s) == {s[i] : i \in 1..Len(s)}

\* the value of Python's None (no token is a sequence holding this string)
None == <<"None">>

(***************************************************************************)
(* The quality resolver.                                                   *)
(***************************************************************************)
\* lines 133-138: strip every token, drop the blank ones and the duplicates
RECURSIVE NormalizeFrom(_, _)
NormalizeFrom(qs, acc) ==
    IF qs = <<>> THEN acc
    ELSE LET q_str == Strip(Head(qs))
         IN  NormalizeFrom(Tail(qs),
                 IF q_str # <<>> /\ q_str \notin Range(acc)
                 THEN Append(acc, q_str) ELSE acc)

normalized_qualities(available_qualities) == NormalizeFrom(available_qualities, <<>>)

quality_sort_key(q) ==
    LET s == Lower(q)
    IN  IF Contains(s, qHigh) THEN 10000
        ELSE IF Contains(s, qLow) THEN 0
        ELSE IF FirstDigitRun(s) # <<>> THEN ParseInt(FirstDigitRun(s))
        ELSE -1

\* sorted(..., key=quality_sort_key, reverse=True): a stable sort, so tokens of
\* equal key keep their order of the input
\* InsertDesc for sorted(...) without reverse=True
RECURSIVE InsertDesc_Ascending(_, _)
InsertDesc_Ascending(sorted, q) ==
    IF sorted = <<>> THEN <<q>>
    ELSE IF quality_sort_key(Head(sorted)) <= quality_sort_key(q)
         THEN <<Head(sorted)>> \o InsertDesc_Ascending(Tail(sorted), q)
         ELSE <<q>> \o sorted

RECURSIVE InsertDesc(_, _)
InsertDesc(sorted, q) ==
    IF sorted = <<>> THEN <<q>>
    ELSE IF quality_sort_key(Head(sorted)) >= quality_sort_key(q)
         THEN <<Head(sorted)>> \o InsertDesc(Tail(sorted), q)
         ELSE <<q>> \o sorted

RECURSIVE SortDesc(_, _)
SortDesc(qs, acc) ==
    IF qs = <<>> THEN acc ELSE SortDesc(Tail(qs), InsertDesc(acc, Head(qs)))

sorted_qualities(normalized) == SortDesc(normalized, <<>>)

\* SelectTier without the presence test of line 150
SelectTier_RequestedUnchecked(requested_quality, normalized) ==
    LET bestOrFirst == IF best \in Range(normalized) THEN best ELSE normalized[1]
    IN  IF requested_quality \in TierTokens THEN requested_quality
        ELSE IF requested_quality \in {q720p, q1080p, q1440p, q2160p}
             THEN bestOrFirst
        ELSE IF requested_quality \in {q480p, q540p}
             THEN IF half \in Range(normalized) THEN half ELSE bestOrFirst
        ELSE IF worst \in Range(normalized) THEN worst ELSE normalized[1]

\* lines 147-162: the tier universe (best / half / worst)
SelectTier(requested_quality, normalized) ==
    LET bestOrFirst == IF best \in Range(normalized) THEN best ELSE normalized[1]
    IN  IF requested_quality \in TierTokens
        THEN IF requested_quality \in Range(normalized)
             THEN requested_quality ELSE bestOrFirst
        ELSE IF requested_quality \in {q720p, q1080p, q1440p, q2160p}
             THEN bestOrFirst
        ELSE IF requested_quality \in {q480p, q540p}
             THEN IF half \in Range(normalized) THEN half ELSE bestOrFirst
        ELSE IF worst \in Range(normalized) THEN worst ELSE normalized[1]

\* lines 197-220: the first token, in descending order, whose digits are at most
\* the digits of the request; the lowest if none; the best if the request has
\* no digit (int('') raises ValueError)
SelectNextLower(requested_quality, sorted) ==
    IF OnlyDigits(requested_quality) = <<>> THEN sorted[1]
    ELSE LET requested_res == ParseInt(OnlyDigits(requested_quality))
             fits(i) == /\ OnlyDigits(sorted[i]) # <<>>
                        /\ ParseInt(OnlyDigits(sorted[i])) <= requested_res
         IN  IF \E i \in 1..Len(sorted) : fits(i)
             THEN sorted[CHOOSE i \in 1..Len(sorted) :
                             fits(i) /\ \A j \in 1..(i - 1) : ~fits(j)]
             ELSE sorted[Len(sorted)]

\* SelectResolution without the two match steps of lines 187-195
SelectResolution_NoMatch(requested_quality, normalized) ==
    LET sorted == sorted_qualities(normalized)
    IN  IF requested_quality = best THEN sorted[1]
        ELSE IF requested_quality = half THEN sorted[(Len(sorted) \div 2) + 1]
        ELSE IF requested_quality = worst THEN sorted[Len(sorted)]
        ELSE SelectNextLower(requested_quality, sorted)

\* SelectResolution with the middle index (len - 1) // 2
SelectResolution_LowerMiddle(requested_quality, normalized) ==
    LET sorted == sorted_qualities(normalized)
    IN  IF requested_quality = half THEN sorted[((Len(sorted) - 1) \div 2) + 1]
        ELSE sorted[1]

\* lines 164-220: the resolution universe
SelectResolution(requested_quality, normalized) ==
    LET sorted == sorted_qualities(normalized)
        same(i) == Lower(sorted[i]) = Lower(requested_quality)
    IN  IF requested_quality = best THEN sorted[1]
        ELSE IF requested_quality = half THEN sorted[(Len(sorted) \div 2) + 1]
        ELSE IF requested_quality = worst THEN sorted[Len(sorted)]
        ELSE IF requested_quality \in Range(sorted) THEN requested_quality
        ELSE IF \E i \in 1..Len(sorted) : same(i)
             THEN sorted[CHOOSE i \in 1..Len(sorted) :
                             same(i) /\ \A j \in 1..(i - 1) : ~same(j)]
        ELSE SelectNextLower(requested_quality, sorted)

\* is_eporner_format looking at the first token only
is_eporner_format_First(normalized) == normalized[1] \in TierTokens

is_eporner_format(normalized) == \E i \in 1..Len(normalized) : normalized[i] \in TierTokens

_select_best_available_quality(requested_quality, available_qualities) ==
    IF available_qualities = <<>> THEN None
    ELSE LET normalized == normalized_qualities(available_qualities)
         IN  IF normalized = <<>> THEN None
             ELSE IF is_eporner_format(normalized)
                  THEN SelectTier(requested_quality, normalized)
                  ELSE SelectResolution(requested_quality, normalized)

(***************************************************************************)
(* Transfers, providers and errors.                                        *)
(***************************************************************************)
\* the uuid4 strings of the download_video_by_url calls of one behaviour
DownloadIds == {"d1", "d2"}

\* the classes of video object check_video returns
XvTypes == {"xv_Video", "xn_Video"}
DirectTypes == {"hq_Video", "ep_Video", "yp_Video"}
PhTypes == {"ph_Video"}
GenericTypes == {"mv_Video", "xh_Video", "sp_Video"}
VideoTypes == XvTypes \cup DirectTypes \cup PhTypes \cup GenericTypes

\* check_video returned False: the URL matches no provider
NoVideo == "False"

\* the video objects of the transfers of the model: one class of each branch of
\* perform_download
TransferVideos == {"xv_Video", "ep_Video", "ph_Video", "mv_Video"}

\* their requested quality and the quality list load_video_attributes returns
TransferRequests ==
    {[quality |-> best, available |-> <<q720p, q480p>>],
     [quality |-> q720p, available |-> <<best, half, worst>>],
     [quality |-> best, available |-> <<qBlank>>]}

NoError == "none"

(***************************************************************************)
(* The file system: the download directory "dl" (dirname(output_path)),    *)
(* shared by the transfers, and one temp_<download_id> directory each.     *)
(***************************************************************************)
DownloadDir == <<"dl", "">>

TempDir(t) == <<"temp", t>>

Dirs == {DownloadDir} \cup {TempDir(t) : t \in DownloadIds}

\* names a provider library gives the files it creates in a directory:
\* one with a media extension, two without
MediaName == "lib.mp4"
OtherNames == {"lib.jpg", "lib.txt"}
LibNames == {MediaName} \cup OtherNames

\* lines 537, 561, 699: file.lower().endswith(ext) for a video extension
HasVideoExtension(name) == name[1] \in {MediaName, "old.mp4", "out.mp4"}

\* os.path.basename(out_file): f"{safe_title}.mp4"
OutName(t) == <<"out.mp4", t>>

LibFile(t, n) == <<n, t>>

\* a media file of the download directory that was there before any transfer
\* started and was modified less than 5 minutes ago
OldName == <<"old.mp4", "pre">>

DirNames(d) ==
    IF d = DownloadDir
    THEN {OutName(t) : t \in DownloadIds}
         \cup {LibFile(t, n) : t \in DownloadIds, n \in LibNames} \cup {OldName}
    ELSE {LibFile(d[2], n) : n \in LibNames}

Path(d, n) == <<d, n>>

Paths == UNION {{Path(d, n) : n \in DirNames(d)} : d \in Dirs}

\* output_path
OutFile(t) == Path(DownloadDir, OutName(t))

NoFile == [size |-> -1, by |-> "none"]

\* a file: its size (0, or 1 for any positive size) and the transfer whose
\* provider call wrote it ("pre" for a file older than every transfer)
File(size, by) == [size |-> size, by |-> by]

Exists(p) == fs.file[p] # NoFile

GetSize(p) == fs.file[p].size

\* os.listdir
ListDir(d) == {n \in DirNames(d) : Exists(Path(d, n))}

\* os.rename on POSIX: the target is replaced
Rename(file, src, dst) == [file EXCEPT ![dst] = file[src], ![src] = NoFile]

Remove(file, ps) == [p \in DOMAIN file |-> IF p \in ps THEN NoFile ELSE file[p]]

(***************************************************************************)
(* What a provider transfer call leaves on disk.  The providers are black  *)
(* boxes: a call returns or raises, and writes any of these sets of files. *)
(***************************************************************************)
\* download(path=<a directory>): the names written, with their sizes
DirWrites ==
    { {},
      {<<MediaName, 1>>},
      {<<MediaName, 0>>},
      {<<"lib.txt", 1>>},
      {<<MediaName, 1>>, <<"lib.txt", 1>>},
      {<<"lib.jpg", 1>>, <<"lib.txt", 1>>} }

\* a call that raises leaves nothing, or the part of a file it had written
PartialWrites == {{}, {<<MediaName, 1>>}}

DirEffects ==
    [raises : {FALSE}, writes : DirWrites, direct : {-1}]
    \cup [raises : {TRUE}, writes : PartialWrites, direct : {-1}]
    \cup {[raises |-> FALSE, writes |-> {}, direct |-> 1]}

\* download(path=output_path): the size of the file left at output_path
\* (-1: no file was written)
FileEffects == [raises : BOOLEAN, writes : {{}}, direct : {-1, 0, 1}]

\* the files after a call of transfer t with effect e into target directory d
\* (for a file target, d is the download directory)
ApplyEffect(file, t, d, e) ==
    [p \in DOMAIN file |->
        IF p = OutFile(t) /\ e.direct >= 0 THEN File(e.direct, t)
        ELSE IF \E w \in e.writes : p = Path(d, LibFile(t, w[1]))
             THEN File((CHOOSE w \in e.writes : p = Path(d, LibFile(t, w[1])))[2], t)
        ELSE file[p]]

(***************************************************************************)
(* The registry entries.                                                   *)
(***************************************************************************)
\* one tick of the clock is 1/TicksPerSecond seconds
TicksPerSecond == 1

\* a speed in bits per second, as the fraction num / den
Speed(num, den) == [num |-> num, den |-> den]

\* lines 278-287
NewEntry(t, progress_unit, now) ==
    [id |-> t, filename |-> OutName(t), status |-> "DOWNLOADING", progress |-> 0,
     total |-> 0, unit |-> progress_unit, speed_bps |-> Speed(0, 1),
     last_update |-> now]

Registered(t) == t \in DOMAIN active_downloads

\* web_api.get_status: list(downloader.active_downloads.values())
get_status == {active_downloads[t] : t \in DOMAIN active_downloads}

SetStatus(reg, t, s) ==
    IF t \in DOMAIN reg THEN [reg EXCEPT ![t].status = s] ELSE reg

DelEntry(reg, t) == [i \in (DOMAIN reg) \ {t} |-> reg[i]]

(***************************************************************************)
(* Initial states.                                                         *)
(***************************************************************************)
NoFrame ==
    [video |-> NoVideo, quality |-> best, available |-> <<>>, final_quality |-> None,
     files_before |-> {}, err |-> NoError, ret |-> "none"]

NoCallback ==
    [pc |-> "idle", pos |-> 0, total |-> 0, current_time |-> 0, last_update |-> 0,
     last_progress |-> 0, speed_bps |-> Speed(0, 1), count |-> 0, raised |-> FALSE]

\* first_terminal: the first COMPLETED / FAILED written to the entry; found:
\* whether line 274 saw a file at output_path; caught: the error the except
\* clause of line 302 caught
NoHist ==
    [first_terminal |-> "none", inserted |-> FALSE, released |-> FALSE,
     found |-> FALSE, caught |-> NoError]

\* the files a transfer may find when it starts: anything at its output path,
\* and possibly a recent media file of an earlier download
InitialFiles ==
    {[p \in Paths |->
         IF p = Path(DownloadDir, OldName) THEN o
         ELSE IF \E t \in DownloadIds : p = OutFile(t)
              THEN oc[CHOOSE t \in DownloadIds : p = OutFile(t)]
         ELSE NoFile] :
     oc \in [DownloadIds -> {NoFile, File(0, "pre"), File(1, "pre")}],
     o \in {NoFile, File(1, "pre")}}

InitCommon ==
    /\ active_downloads = <<>>
    /\ fs \in [file : InitialFiles, dirs : {{}}]
    /\ conf \in [skip_existing_files : BOOLEAN, write_metadata : BOOLEAN]
    /\ clock = 0
    /\ frame = [t \in DownloadIds |-> NoFrame]
    /\ cb = [t \in DownloadIds |-> NoCallback]
    /\ calls = [t \in DownloadIds |-> <<>>]
    /\ notified = {}
    /\ hist = [t \in DownloadIds |-> NoHist]
    /\ outcome = [t \in DownloadIds |-> "none"]

\* downloader.py lines 40 and 57-62: the settings a transfer leaves alone
DefaultSettings ==
    [ignore_errors |-> TRUE, result_limit |-> MaxLimit, request_delay |-> 0]

\* no bulk operation, normalizer call, classification, enumeration or fetch
Off == [pc |-> "off"]

InitOthersOff ==
    /\ bulk = Off
    /\ norm = Off
    /\ cls = Off
    /\ gen = Off
    /\ fetch = Off

\* one single-URL transfer request
Init ==
    /\ InitCommon
    /\ settings = DefaultSettings
    /\ InitOthersOff
    /\ pc = [t \in DownloadIds |-> IF t = "d1" THEN "idle" ELSE "off"]
    /\ \A t \in DownloadIds \ {"d1"} : fs.file[OutFile(t)] = NoFile
    /\ resolve_in = [requested |-> best, available |-> <<>>]
    /\ resolve_out = <<"unset">>

(***************************************************************************)
(* download_video_by_url.                                                  *)
(***************************************************************************)
xvars == <<resolve_in, resolve_out, settings, bulk, norm, cls, gen, fetch>>

\* lines 226-245: check_video and load_video_attributes
Start(t) ==
    /\ pc[t] = "idle"
    /\ \E v \in TransferVideos \cup {NoVideo}, r \in TransferRequests :
          /\ frame' = [frame EXCEPT ![t] =
                 [NoFrame EXCEPT !.video = v, !.quality = r.quality,
                                 !.available = r.available,
                                 !.err = IF v = NoVideo THEN "ValueError" ELSE NoError]]
          /\ pc' = [pc EXCEPT ![t] = IF v = NoVideo THEN "except" ELSE "target"]
    /\ UNCHANGED <<active_downloads, fs, conf, clock, cb, calls, notified, hist,
                   outcome, xvars>>

\* line 233-234
progress_unit(v) == IF v \in PhTypes THEN "segments" ELSE "bytes"

\* ShouldSkip without the policy: the transfer always runs
ShouldSkip_Never(t) == FALSE

\* line 274
ShouldSkip(t) == conf.skip_existing_files /\ Exists(OutFile(t))

\* lines 274-287: skip an existing file, or insert the registry entry
Target(t) ==
    /\ pc[t] = "target"
    /\ IF ShouldSkip(t)
       THEN /\ frame' = [frame EXCEPT ![t].ret = "Skipped"]
            /\ pc' = [pc EXCEPT ![t] = "sleep"]
            /\ hist' = [hist EXCEPT ![t].found = Exists(OutFile(t))]
            /\ UNCHANGED active_downloads
       ELSE /\ active_downloads' =
                   [i \in (DOMAIN active_downloads) \cup {t} |->
                       IF i = t THEN NewEntry(t, progress_unit(frame[t].video), clock)
                       ELSE active_downloads[i]]
            /\ hist' = [hist EXCEPT ![t].inserted = TRUE,
                                    ![t].found = Exists(OutFile(t))]
            /\ pc' = [pc EXCEPT ![t] = "resolve"]
            /\ UNCHANGED frame
    /\ UNCHANGED <<fs, conf, clock, cb, calls, notified, outcome, xvars>>

(***************************************************************************)
(* perform_download.                                                       *)
(***************************************************************************)
\* the branch of lines 454, 584, 660, 677 a video object takes
FirstStep(v) ==
    IF v \in XvTypes THEN "xv_list"
    ELSE IF v \in DirectTypes THEN "direct"
    ELSE IF v \in PhTypes THEN "ph_custom"
    ELSE "generic"

\* lines 426-431: the answers of _select_best_available_quality to the requests
\* of the transfers
final_quality_of ==
    [r \in TransferRequests |->
        _select_best_available_quality(r.quality, r.available)]

\* lines 426-451: resolve the quality; no quality resolved is a ValueError
Resolve(t) ==
    /\ pc[t] = "resolve"
    /\ LET final_quality ==
               final_quality_of[[quality |-> frame[t].quality,
                                 available |-> frame[t].available]]
       IN  IF final_quality = None
           THEN /\ frame' = [frame EXCEPT ![t].err = "ValueError"]
                /\ pc' = [pc EXCEPT ![t] = "pd_finally"]
           ELSE /\ frame' = [frame EXCEPT ![t].final_quality = final_quality]
                /\ pc' = [pc EXCEPT ![t] = FirstStep(frame[t].video)]
    /\ UNCHANGED <<active_downloads, fs, conf, clock, cb, calls, notified, hist,
                   outcome, xvars>>

\* one provider transfer invocation: its target (a directory, or the file `name`
\* of a directory) and its quality
NoName == <<"", "">>

Call(dir, name, quality, raised) ==
    [dir |-> dir, name |-> name, quality |-> quality, raised |-> raised]

\* the provider transfer call of transfer t into the download directory
\* (name = NoName) or to its file `name`, with effect e
Invoke(t, name, quality, e) ==
    /\ fs' = [fs EXCEPT !.file = ApplyEffect(fs.file, t, DownloadDir, e)]
    /\ calls' = [calls EXCEPT ![t] = Append(@, Call(DownloadDir, name, quality, e.raises))]

\* lines 455-457: files_before = set(os.listdir(download_dir))
XvList(t) ==
    /\ pc[t] = "xv_list"
    /\ frame' = [frame EXCEPT ![t].files_before = ListDir(DownloadDir)]
    /\ pc' = [pc EXCEPT ![t] = "xv_dir"]
    /\ UNCHANGED <<active_downloads, fs, conf, clock, cb, calls, notified, hist,
                   outcome, xvars>>

\* line 503: video.download(path=download_dir, quality=final_quality, ...)
XvDownloadDir(t) ==
    /\ pc[t] = "xv_dir"
    /\ \E e \in DirEffects :
          /\ Invoke(t, NoName, frame[t].final_quality, e)
          /\ pc' = [pc EXCEPT ![t] = IF e.raises THEN "xv_file" ELSE "xv_reconcile"]
    /\ UNCHANGED <<active_downloads, conf, clock, frame, cb, notified, hist,
                   outcome, xvars>>

\* lines 505-510: the direct download to output_path after the first call raised
XvDownloadFile(t) ==
    /\ pc[t] = "xv_file"
    /\ \E e \in FileEffects :
          /\ Invoke(t, OutName(t), frame[t].final_quality, e)
          /\ pc' = [pc EXCEPT ![t] = IF e.raises THEN "xv_other" ELSE "completed"]
    /\ UNCHANGED <<active_downloads, conf, clock, frame, cb, notified, hist,
                   outcome, xvars>>

\* line 517
fallback_quality(final_quality) == IF final_quality # best THEN best ELSE worst

\* AfterLastFallback with one more round instead of giving up
AfterLastFallback_Retry(raised) == IF raised THEN "resolve" ELSE "completed"

\* lines 519-521 / 673-675: the last call of a chain raised: the error leaves
\* perform_download; there is no further attempt
AfterLastFallback(raised) == IF raised THEN "pd_finally" ELSE "completed"

\* lines 511-521: the last fallback, with another quality; `raise fallback_e`
XvDownloadOther(t) ==
    /\ pc[t] = "xv_other"
    /\ \E e \in DirEffects :
          /\ Invoke(t, NoName,
                    fallback_quality(frame[t].final_quality), e)
          /\ frame' = [frame EXCEPT ![t].err = IF e.raises THEN "fallback_e" ELSE @]
          /\ pc' = [pc EXCEPT ![t] = AfterLastFallback(e.raises)]
    /\ UNCHANGED <<active_downloads, conf, clock, cb, notified, hist, outcome, xvars>>

\* lines 536-548: the recently modified, non-empty video files of the directory
RecentVideoFiles ==
    {n \in ListDir(DownloadDir) :
        HasVideoExtension(n) /\ GetSize(Path(DownloadDir, n)) > 0}

\* lines 522-582: the else branch of the first call: find the file it created
XvReconcile(t) ==
    /\ pc[t] = "xv_reconcile"
    /\ LET new_files == ListDir(DownloadDir) \ frame[t].files_before
           video_files == {n \in new_files : HasVideoExtension(n)}
           fail == /\ frame' = [frame EXCEPT ![t].err = "FileNotFoundError"]
                   /\ pc' = [pc EXCEPT ![t] = "pd_finally"]
                   /\ UNCHANGED fs
           promote(n, extra) ==
                   /\ fs' = [fs EXCEPT !.file =
                          Remove(Rename(fs.file, Path(DownloadDir, n), OutFile(t)),
                                 {Path(DownloadDir, x) : x \in extra})]
                   /\ pc' = [pc EXCEPT ![t] = "completed"]
                   /\ UNCHANGED frame
       IN  IF Exists(OutFile(t)) /\ GetSize(OutFile(t)) > 0
           THEN /\ pc' = [pc EXCEPT ![t] = "completed"]
                /\ UNCHANGED <<fs, frame>>
           ELSE IF Cardinality(new_files) = 1
           THEN \E n \in new_files : promote(n, {})
           ELSE IF new_files = {}
           THEN IF RecentVideoFiles # {}
                THEN \E n \in RecentVideoFiles : promote(n, {})
                ELSE fail
           ELSE IF video_files # {}
                THEN \E n \in video_files : promote(n, new_files \ {n})
                ELSE fail
    /\ UNCHANGED <<active_downloads, conf, clock, cb, calls, notified, hist,
                   outcome, xvars>>

\* download(path=temp_dir): nothing is written to output_path
TempEffects == {e \in DirEffects : e.direct < 0}

\* lines 650-658 / 728-738: remove every file of temp_dir, then the directory
CleanTempDir(t) ==
    fs' = [file |-> Remove(fs.file, {Path(TempDir(t), n) : n \in DirNames(TempDir(t))}),
           dirs |-> fs.dirs \ {t}]

AfterTemp(t) == IF frame[t].err = NoError THEN "completed" ELSE "pd_finally"

\* lines 624-630: HQPorner / Eporner / YouPorn: download to output_path and verify
DirectDownload(t) ==
    /\ pc[t] = "direct"
    /\ \E e \in FileEffects :
          /\ Invoke(t, OutName(t), frame[t].final_quality, e)
          /\ LET file == ApplyEffect(fs.file, t, DownloadDir, e)
                 ok == ~e.raises /\ file[OutFile(t)] # NoFile
                                 /\ file[OutFile(t)].size # 0
             IN  pc' = [pc EXCEPT ![t] = IF ok THEN "completed" ELSE "direct_temp"]
    /\ UNCHANGED <<active_downloads, conf, clock, frame, cb, notified, hist,
                   outcome, xvars>>

\* lines 632-638: the fallback into temp_<download_id>
DirectTempDownload(t) ==
    /\ pc[t] = "direct_temp"
    /\ \E e \in TempEffects :
          /\ calls' = [calls EXCEPT ![t] =
                 Append(@, Call(TempDir(t), NoName, frame[t].final_quality, e.raises))]
          /\ fs' = [file |-> ApplyEffect(fs.file, t, TempDir(t), e),
                    dirs |-> fs.dirs \cup {t}]
          /\ frame' = [frame EXCEPT ![t].files_before = ListDir(TempDir(t)),
                                    ![t].err = IF e.raises THEN "ProviderError"
                                               ELSE NoError]
          /\ pc' = [pc EXCEPT ![t] = IF e.raises THEN "direct_cleanup"
                                     ELSE "direct_reconcile"]
    /\ UNCHANGED <<active_downloads, conf, clock, cb, notified, hist, outcome, xvars>>

\* lines 639-649: rename list(new_files)[0], whatever it is, to output_path
DirectReconcile(t) ==
    /\ pc[t] = "direct_reconcile"
    /\ LET new_files == ListDir(TempDir(t)) \ frame[t].files_before
       IN  IF new_files # {}
           THEN /\ \E n \in new_files :
                       fs' = [fs EXCEPT !.file =
                                 Rename(fs.file, Path(TempDir(t), n), OutFile(t))]
                /\ UNCHANGED frame
           ELSE /\ frame' = [frame EXCEPT ![t].err = "FileNotFoundError"]
                /\ UNCHANGED fs
    /\ pc' = [pc EXCEPT ![t] = "direct_cleanup"]
    /\ UNCHANGED <<active_downloads, conf, clock, cb, calls, notified, hist,
                   outcome, xvars>>

\* lines 650-658: the finally of the fallback
DirectCleanup(t) ==
    /\ pc[t] = "direct_cleanup"
    /\ CleanTempDir(t)
    /\ pc' = [pc EXCEPT ![t] = AfterTemp(t)]
    /\ UNCHANGED <<active_downloads, conf, clock, frame, cb, calls, notified, hist,
                   outcome, xvars>>

\* lines 679-685: the other providers: download to output_path and verify
GenericDownload(t) ==
    /\ pc[t] = "generic"
    /\ \E e \in FileEffects :
          /\ Invoke(t, OutName(t), frame[t].final_quality, e)
          /\ LET file == ApplyEffect(fs.file, t, DownloadDir, e)
                 ok == ~e.raises /\ file[OutFile(t)] # NoFile
                                 /\ file[OutFile(t)].size # 0
             IN  pc' = [pc EXCEPT ![t] = IF ok THEN "completed" ELSE "generic_temp"]
    /\ UNCHANGED <<active_downloads, conf, clock, frame, cb, notified, hist,
                   outcome, xvars>>

\* lines 687-693
GenericTempDownload(t) ==
    /\ pc[t] = "generic_temp"
    /\ \E e \in TempEffects :
          /\ calls' = [calls EXCEPT ![t] =
                 Append(@, Call(TempDir(t), NoName, frame[t].final_quality, e.raises))]
          /\ fs' = [file |-> ApplyEffect(fs.file, t, TempDir(t), e),
                    dirs |-> fs.dirs \cup {t}]
          /\ frame' = [frame EXCEPT ![t].files_before = ListDir(TempDir(t)),
                                    ![t].err = IF e.raises THEN "ProviderError"
                                               ELSE NoError]
          /\ pc' = [pc EXCEPT ![t] = IF e.raises THEN "generic_cleanup"
                                     ELSE "generic_reconcile"]
    /\ UNCHANGED <<active_downloads, conf, clock, cb, notified, hist, outcome, xvars>>

\* lines 694-727: prefer a file with a video extension, delete the others
GenericReconcile(t) ==
    /\ pc[t] = "generic_reconcile"
    /\ LET new_files == ListDir(TempDir(t)) \ frame[t].files_before
           video_files == {n \in new_files : HasVideoExtension(n)}
           fail == /\ frame' = [frame EXCEPT ![t].err = "FileNotFoundError"]
                   /\ UNCHANGED fs
       IN  IF new_files = {} THEN fail
           ELSE IF video_files # {}
           THEN /\ \E n \in video_files :
                       fs' = [fs EXCEPT !.file =
                                 Remove(Rename(fs.file, Path(TempDir(t), n), OutFile(t)),
                                        {Path(TempDir(t), x) : x \in new_files \ {n}})]
                /\ UNCHANGED frame
           ELSE IF Cardinality(new_files) = 1
           THEN /\ \E n \in new_files :
                       fs' = [fs EXCEPT !.file =
                                 Rename(fs.file, Path(TempDir(t), n), OutFile(t))]
                /\ UNCHANGED frame
           ELSE fail
    /\ pc' = [pc EXCEPT ![t] = "generic_cleanup"]
    /\ UNCHANGED <<active_downloads, conf, clock, cb, calls, notified, hist,
                   outcome, xvars>>

\* lines 728-738
GenericCleanup(t) ==
    /\ pc[t] = "generic_cleanup"
    /\ CleanTempDir(t)
    /\ pc' = [pc EXCEPT ![t] = AfterTemp(t)]
    /\ UNCHANGED <<active_downloads, conf, clock, frame, cb, calls, notified, hist,
                   outcome, xvars>>

\* _custom_pornhub_downloader: requests of this program; it raises before or
\* after open(output_path, 'wb'), or returns with the bytes it received
CustomEffects ==
    {[raises |-> TRUE, writes |-> {}, direct |-> -1],
     [raises |-> TRUE, writes |-> {}, direct |-> 1],
     [raises |-> FALSE, writes |-> {}, direct |-> 0],
     [raises |-> FALSE, writes |-> {}, direct |-> 1]}

SetUnit(reg, t, u) == [reg EXCEPT ![t].unit = u]

\* lines 661-663
PhCustom(t) ==
    /\ pc[t] = "ph_custom"
    /\ active_downloads' = SetUnit(active_downloads, t, "bytes")
    /\ \E e \in CustomEffects :
          /\ Invoke(t, OutName(t), frame[t].final_quality, e)
          /\ pc' = [pc EXCEPT ![t] = IF e.raises THEN "ph_library" ELSE "completed"]
    /\ UNCHANGED <<conf, clock, frame, cb, notified, hist, outcome, xvars>>

\* lines 664-668: the library's segment download
PhLibrary(t) ==
    /\ pc[t] = "ph_library"
    /\ active_downloads' = SetUnit(active_downloads, t, "segments")
    /\ \E e \in FileEffects :
          /\ Invoke(t, OutName(t), frame[t].final_quality, e)
          /\ pc' = [pc EXCEPT ![t] = IF e.raises THEN "ph_best" ELSE "completed"]
    /\ UNCHANGED <<conf, clock, frame, cb, notified, hist, outcome, xvars>>

\* lines 669-675: once more with quality 'best'; `raise ph_final_e`
PhBest(t) ==
    /\ pc[t] = "ph_best"
    /\ \E e \in FileEffects :
          /\ Invoke(t, OutName(t), best, e)
          /\ frame' = [frame EXCEPT ![t].err = IF e.raises THEN "ph_final_e" ELSE @]
          /\ pc' = [pc EXCEPT ![t] = AfterLastFallback(e.raises)]
    /\ UNCHANGED <<active_downloads, conf, clock, cb, notified, hist, outcome, xvars>>

\* lines 740-741
Completed(t) ==
    /\ pc[t] = "completed"
    /\ active_downloads' = SetStatus(active_downloads, t, "COMPLETED")
    /\ hist' = [hist EXCEPT ![t].first_terminal =
                   IF @ = "none" /\ Registered(t) THEN "COMPLETED" ELSE @]
    /\ pc' = [pc EXCEPT ![t] = "pd_finally"]
    /\ UNCHANGED <<fs, conf, clock, frame, cb, calls, notified, outcome, xvars>>

\* where perform_download's finally block leaves to: line 300 when no exception
\* is in flight, the except clause of line 302 otherwise
AfterFinally(t) == IF frame[t].err = NoError THEN "return" ELSE "except"

\* lines 743-747: the finally block of perform_download; conf.write_metadata
\* stands for the test of line 746 together with `remux` of line 747
PdFinally(t) ==
    /\ pc[t] = "pd_finally"
    /\ pc' = [pc EXCEPT ![t] =
                 IF Exists(OutFile(t))
                 THEN IF conf.write_metadata THEN "write_tags" ELSE "register"
                 ELSE AfterFinally(t)]
    /\ UNCHANGED <<active_downloads, fs, conf, clock, frame, cb, calls, notified,
                   hist, outcome, xvars>>

\* line 748: shared_functions.write_tags (mutagen): it returns or raises
WriteTags(t) ==
    /\ pc[t] = "write_tags"
    /\ \/ /\ pc' = [pc EXCEPT ![t] = "register"]
          /\ UNCHANGED frame
       \/ /\ frame' = [frame EXCEPT ![t].err = "TagError"]
          /\ pc' = [pc EXCEPT ![t] = "except"]
    /\ UNCHANGED <<active_downloads, fs, conf, clock, cb, calls, notified, hist,
                   outcome, xvars>>

\* the answers of the main application to the POST of line 98; every one but
\* "ok" makes requests.post or raise_for_status raise
Responses == {"ok", "ConnectionError", "HTTPError", "Exception"}

\* a registration request: who sent it, for which file, in which situation
Registration(t, response) ==
    [id |-> t, size_bytes |-> GetSize(OutFile(t)), by |-> fs.file[OutFile(t)].by,
     status |-> IF Registered(t) THEN active_downloads[t].status ELSE "none",
     err |-> frame[t].err, response |-> response]

\* registration_error without the except clauses of lines 101-104
registration_error_Propagates(response) ==
    IF response = "ok" THEN NoError ELSE response

\* lines 101-104: the error register_with_main_app lets out for a response:
\* every exception of the try block is logged and dropped
registration_error(response) == NoError

\* lines 750-760 and 69-104: register_with_main_app
Register(t) ==
    /\ pc[t] = "register"
    /\ IF ~Exists(OutFile(t))
       THEN UNCHANGED <<fs, notified, frame>>
       ELSE IF GetSize(OutFile(t)) = 0
       THEN /\ fs' = [fs EXCEPT !.file = Remove(fs.file, {OutFile(t)})]
            /\ UNCHANGED <<notified, frame>>
       ELSE /\ \E r \in Responses :
                   /\ notified' = notified \cup {Registration(t, r)}
                   /\ frame' = [frame EXCEPT ![t].err =
                          IF registration_error(r) # NoError
                          THEN registration_error(r) ELSE @]
            /\ UNCHANGED fs
    /\ pc' = [pc EXCEPT ![t] = IF frame'[t].err = NoError THEN "return" ELSE "except"]
    /\ UNCHANGED <<active_downloads, conf, clock, cb, calls, hist, outcome, xvars>>

\* line 300: return out_file, "Downloaded"
Return(t) ==
    /\ pc[t] = "return"
    /\ frame' = [frame EXCEPT ![t].ret = "Downloaded"]
    /\ pc' = [pc EXCEPT ![t] = "sleep"]
    /\ UNCHANGED <<active_downloads, fs, conf, clock, cb, calls, notified, hist,
                   outcome, xvars>>

\* MarkFailed without the assignment of line 305
MarkFailed_Forgotten(reg, t) == reg

\* lines 304-305
MarkFailed(reg, t) == SetStatus(reg, t, "FAILED")

\* lines 302-306: mark the entry FAILED and raise the error again
Except(t) ==
    /\ pc[t] = "except"
    /\ active_downloads' = MarkFailed(active_downloads, t)
    /\ hist' = [hist EXCEPT ![t].caught = frame[t].err,
                            ![t].first_terminal =
                   IF @ = "none" /\ Registered(t)
                      /\ active_downloads'[t].status = "FAILED"
                   THEN "FAILED" ELSE @]
    /\ pc' = [pc EXCEPT ![t] = "sleep"]
    /\ UNCHANGED <<fs, conf, clock, frame, cb, calls, notified, outcome, xvars>>

\* line 309: time.sleep(10)
Sleep(t) ==
    /\ pc[t] = "sleep"
    /\ pc' = [pc EXCEPT ![t] = "release"]
    /\ UNCHANGED <<active_downloads, fs, conf, clock, frame, cb, calls, notified,
                   hist, outcome, xvars>>

\* lines 310-311, then the return value or the error reaches the caller
Release(t) ==
    /\ pc[t] = "release"
    /\ active_downloads' =
           IF Registered(t) THEN DelEntry(active_downloads, t) ELSE active_downloads
    /\ hist' = [hist EXCEPT ![t].released = Registered(t)]
    /\ outcome' = [outcome EXCEPT ![t] =
                      IF frame[t].err # NoError THEN frame[t].err ELSE frame[t].ret]
    /\ pc' = [pc EXCEPT ![t] = "done"]
    /\ UNCHANGED <<fs, conf, clock, frame, cb, calls, notified, xvars>>

(***************************************************************************)
(* progress_callback (lines 410-424), run by the provider library: in the  *)
(* thread of the transfer, or in the library's own download threads        *)
(* (threading_mode), which may outlive the call that started them.         *)
(***************************************************************************)
cvars == <<fs, conf, clock, pc, frame, calls, notified, hist, outcome, xvars>>

\* the lookup self.active_downloads[download_id] of an absent id: KeyError
KeyError(t) ==
    /\ ~Registered(t)
    /\ cb' = [cb EXCEPT ![t] = [NoCallback EXCEPT !.count = cb[t].count,
                                                 !.raised = TRUE]]
    /\ UNCHANGED active_downloads

\* lines 411-412
CbCheck(t) ==
    /\ cb[t].pc = "idle"
    /\ calls[t] # <<>>
    /\ cb[t].count < MaxCallbacks
    /\ IF Registered(t)
       THEN \E pos \in 0..MaxPos :
               cb' = [cb EXCEPT ![t].pc = "last_update", ![t].pos = pos,
                                ![t].total = MaxPos, ![t].current_time = clock,
                                ![t].count = @ + 1]
       ELSE cb' = [cb EXCEPT ![t].count = @ + 1]
    /\ UNCHANGED <<active_downloads, cvars>>

\* line 413
CbLastUpdate(t) ==
    /\ cb[t].pc = "last_update"
    /\ \/ KeyError(t)
       \/ /\ Registered(t)
          /\ cb' = [cb EXCEPT ![t].pc = "last_progress",
                              ![t].last_update = active_downloads[t].last_update]
          /\ UNCHANGED active_downloads
    /\ UNCHANGED cvars

\* line 414
CbLastProgress(t) ==
    /\ cb[t].pc = "last_progress"
    /\ \/ KeyError(t)
       \/ /\ Registered(t)
          /\ cb' = [cb EXCEPT ![t].pc = "speed",
                              ![t].last_progress = active_downloads[t].progress]
          /\ UNCHANGED active_downloads
    /\ UNCHANGED cvars

\* speed_bps without the elif of lines 420-421
speed_bps_Reset(entry, pos, last_progress, time_diff) ==
    IF entry.unit = "bytes" /\ 2 * time_diff > TicksPerSecond
    THEN Speed(8 * (pos - last_progress) * TicksPerSecond, time_diff)
    ELSE Speed(0, 1)

\* lines 415-421, with time_diff in ticks: time_diff > 0.5 seconds
speed_bps(entry, pos, last_progress, time_diff) ==
    IF entry.unit = "bytes" /\ 2 * time_diff > TicksPerSecond
    THEN Speed(8 * (pos - last_progress) * TicksPerSecond, time_diff)
    ELSE IF entry.speed_bps.num # 0 THEN entry.speed_bps
    ELSE Speed(0, 1)

CbSpeed(t) ==
    /\ cb[t].pc = "speed"
    /\ \/ KeyError(t)
       \/ /\ Registered(t)
          /\ cb' = [cb EXCEPT ![t].pc = "update",
                              ![t].speed_bps =
                                  speed_bps(active_downloads[t], cb[t].pos,
                                            cb[t].last_progress,
                                            cb[t].current_time - cb[t].last_update)]
          /\ UNCHANGED active_downloads
    /\ UNCHANGED cvars

\* UpdateEntry storing a fresh entry for the transfer instead of updating its own
UpdateEntry_Replace(reg, t, c) ==
    [reg EXCEPT ![t] = [NewEntry(t, "bytes", c.current_time) EXCEPT
                           !.progress = c.pos, !.total = c.total,
                           !.speed_bps = c.speed_bps]]

\* lines 422-424: self.active_downloads[download_id].update({...}) with the four
\* keys progress, total, speed_bps and last_update
UpdateEntry(reg, t, c) ==
    [reg EXCEPT ![t].progress = c.pos,
                ![t].total = c.total,
                ![t].speed_bps = c.speed_bps,
                ![t].last_update = c.current_time]

\* lines 422-424
CbUpdate(t) ==
    /\ cb[t].pc = "update"
    /\ \/ KeyError(t)
       \/ /\ Registered(t)
          /\ active_downloads' = UpdateEntry(active_downloads, t, cb[t])
          /\ cb' = [cb EXCEPT ![t] = [NoCallback EXCEPT !.count = cb[t].count,
                                                       !.raised = cb[t].raised]]
    /\ UNCHANGED cvars

\* time passes
Tick ==
    /\ clock < MaxTime
    /\ clock' = clock + 1
    /\ UNCHANGED <<active_downloads, fs, conf, pc, frame, cb, calls, notified, hist,
                   outcome, xvars>>

(***************************************************************************)
(* The specification of the transfers.                                     *)
(***************************************************************************)
\* the steps of the thread that runs download_video_by_url for t
Executor(t) ==
    \/ Start(t) \/ Target(t) \/ Resolve(t)
    \/ XvList(t) \/ XvDownloadDir(t) \/ XvDownloadFile(t) \/ XvDownloadOther(t)
    \/ XvReconcile(t)
    \/ DirectDownload(t) \/ DirectTempDownload(t) \/ DirectReconcile(t)
    \/ DirectCleanup(t)
    \/ GenericDownload(t) \/ GenericTempDownload(t) \/ GenericReconcile(t)
    \/ GenericCleanup(t)
    \/ PhCustom(t) \/ PhLibrary(t) \/ PhBest(t)
    \/ Completed(t) \/ PdFinally(t) \/ WriteTags(t) \/ Register(t)
    \/ Return(t) \/ Except(t) \/ Sleep(t) \/ Release(t)

\* the steps of the progress callback of t
Callback(t) ==
    \/ CbCheck(t) \/ CbLastUpdate(t) \/ CbLastProgress(t) \/ CbSpeed(t)
    \/ CbUpdate(t)

Next ==
    \/ \E t \in DownloadIds : Executor(t)
    \/ \E t \in DownloadIds : Callback(t)
    \/ Tick

Spec == Init /\ [][Next]_vars

(***************************************************************************)
(* The transfers with a provider that goes on reporting progress: the      *)
(* library calls progress_callback once per chunk or segment, any number   *)
(* of times during one transfer.                                           *)
(***************************************************************************)
\* the provider library calls progress_callback once more
CbAgain(t) ==
    /\ cb[t].pc = "idle"
    /\ cb[t].count = MaxCallbacks
    /\ pc[t] \notin {"done", "off"}
    /\ cb' = [cb EXCEPT ![t].count = 0]
    /\ UNCHANGED <<active_downloads, cvars>>

\* a transfer into an empty download directory
InitProgress ==
    /\ Init
    /\ \A p \in Paths : fs.file[p] = NoFile
    /\ conf = [skip_existing_files |-> FALSE, write_metadata |-> TRUE]

NextProgress ==
    \/ \E t \in DownloadIds : Executor(t)
    \/ \E t \in DownloadIds : Callback(t)
    \/ \E t \in DownloadIds : CbAgain(t)
    \/ Tick

SpecProgress == InitProgress /\ [][NextProgress]_vars

(***************************************************************************)
(* Two XVideos transfers at once: download_video_by_url runs in one thread *)
(* per request (web_api.py), and both write into the same download         *)
(* directory.                                                              *)
(***************************************************************************)
InitTwo ==
    /\ InitCommon
    /\ settings = DefaultSettings
    /\ InitOthersOff
    /\ \A p \in Paths : fs.file[p] = NoFile
    /\ conf = [skip_existing_files |-> FALSE, write_metadata |-> FALSE]
    /\ pc = [t \in DownloadIds |-> "idle"]
    /\ resolve_in = [requested |-> best, available |-> <<>>]
    /\ resolve_out = <<"unset">>

\* check_video returns an XVideos video for either request
StartXv(t) ==
    /\ Start(t)
    /\ frame'[t].video = "xv_Video"
    /\ frame'[t].quality = best
    /\ frame'[t].available = <<q720p, q480p>>

\* with write_metadata off PdFinally never leads to write_tags
ExecutorXv(t) ==
    \/ StartXv(t) \/ Target(t) \/ Resolve(t)
    \/ XvList(t) \/ XvDownloadDir(t) \/ XvDownloadFile(t) \/ XvDownloadOther(t)
    \/ XvReconcile(t)
    \/ Completed(t) \/ PdFinally(t) \/ Register(t)
    \/ Return(t) \/ Except(t) \/ Sleep(t) \/ Release(t)

NextTwo == \E t \in DownloadIds : ExecutorXv(t)

SpecTwo == InitTwo /\ [][NextTwo]_vars

(***************************************************************************)
(* Two XVideos transfers that report progress: each provider call runs in  *)
(* the thread of its request and calls that request's progress_callback,   *)
(* so the callbacks of the two transfers interleave with each other and    *)
(* with the executors' steps. The library here writes the file it was      *)
(* asked for and returns.                                                  *)
(***************************************************************************)
\* line 503 with a library that creates the output file itself and returns
XvDownloadDirect(t) ==
    /\ XvDownloadDir(t)
    /\ pc'[t] = "xv_reconcile"
    /\ fs'.file[OutFile(t)].size > 0

ExecutorXvDirect(t) ==
    \/ StartXv(t) \/ Target(t) \/ Resolve(t)
    \/ XvList(t) \/ XvDownloadDirect(t) \/ XvReconcile(t)
    \/ Completed(t) \/ PdFinally(t) \/ Register(t)
    \/ Return(t) \/ Sleep(t) \/ Release(t)

NextConcurrent ==
    \/ \E t \in DownloadIds : ExecutorXvDirect(t)
    \/ \E t \in DownloadIds : Callback(t)
    \/ Tick

SpecConcurrent == InitTwo /\ [][NextConcurrent]_vars

\* the transfers with the clock standing still: the time only enters the speed
\* a progress callback computes
NextUntimed ==
    \/ \E t \in DownloadIds : Executor(t)
    \/ \E t \in DownloadIds : Callback(t)

\* every started call of download_video_by_url runs on: the blocking calls
\* return or raise, and time.sleep(10) ends
FairSpec ==
    Init /\ [][NextUntimed]_vars /\ \A t \in DownloadIds : WF_vars(Executor(t))

(***************************************************************************)
(* The specification of a stand-alone call of the resolver.                *)
(***************************************************************************)
InitResolve ==
    /\ InitCommon
    /\ settings = DefaultSettings
    /\ InitOthersOff
    /\ \A p \in Paths : fs.file[p] = NoFile
    /\ conf = [skip_existing_files |-> TRUE, write_metadata |-> TRUE]
    /\ pc = [t \in DownloadIds |-> "off"]
    /\ resolve_in \in [requested : RequestTokens,
                       available : SeqsUpTo(AvailTokens, MaxAvail)]
    /\ resolve_out = <<"unset">>

ResolveCall ==
    /\ resolve_out = <<"unset">>
    /\ resolve_out' =
           _select_best_available_quality(resolve_in.requested, resolve_in.available)
    /\ UNCHANGED <<active_downloads, fs, conf, clock, pc, frame, cb, calls, notified,
                   hist, outcome, resolve_in, settings, bulk, norm, cls, gen, fetch>>

SpecResolve == InitResolve /\ [][ResolveCall]_vars

\* a stand-alone call of the resolver on a longer list of resolution tokens
MaxMany == 4

ManyTokens == {q1080p, q720p, q480p, q360p, q720p60, qPadded}

InitResolveMany ==
    /\ InitCommon
    /\ settings = DefaultSettings
    /\ InitOthersOff
    /\ \A p \in Paths : fs.file[p] = NoFile
    /\ conf = [skip_existing_files |-> TRUE, write_metadata |-> TRUE]
    /\ pc = [t \in DownloadIds |-> "off"]
    /\ resolve_in \in [requested : RequestTokens,
                       available : SeqsUpTo(ManyTokens, MaxMany)]
    /\ resolve_out = <<"unset">>

SpecResolveMany == InitResolveMany /\ [][ResolveCall]_vars

(***************************************************************************)
(* The bulk operations: download_from_model, download_from_playlist,       *)
(* download_from_search (downloader.py) and the URL batch of               *)
(* download_video (web_api.py).  The enumeration yields bulk.n videos and  *)
(* then is exhausted or raises; each call of download_video_by_url ends in *)
(* one of the ways the transfer above ends: a return value or an error.    *)
(***************************************************************************)
tvars == <<active_downloads, fs, conf, clock, pc, frame, cb, calls, notified, hist,
           outcome, resolve_in, resolve_out>>

\* no transfer and no resolver call is running
TransfersOff ==
    /\ InitCommon
    /\ \A p \in Paths : fs.file[p] = NoFile
    /\ conf = [skip_existing_files |-> TRUE, write_metadata |-> TRUE]
    /\ pc = [t \in DownloadIds |-> "off"]
    /\ resolve_in = [requested |-> best, available |-> <<>>]
    /\ resolve_out = <<"unset">>

EnumOps == {"model", "playlist", "search"}
BulkOps == EnumOps \cup {"batch"}

\* what download_video_by_url hands to the bulk operation that called it
ItemReturns == {"Downloaded", "Skipped"}
ItemErrors == {"ValueError", "ProviderError"}
ItemResults == ItemReturns \cup ItemErrors

\* the error of a provider's listing that fails while it is iterated
EnumerationError == "EnumerationError"

\* the functions of downloader.py return None; the batch answers with counts
NoReport == [kind |-> "None"]

NewBulk(op, n, e) ==
    [pc |-> "next", op |-> op, n |-> n, ends_with_error |-> e, pos |-> 0,
     video_count |-> 0, log |-> <<>>, error |-> NoError,
     successful_count |-> 0, failed_urls |-> <<>>, report |-> NoReport]

InitBulk ==
    /\ TransfersOff
    /\ settings \in [ignore_errors : BOOLEAN, result_limit : 0..MaxLimit,
                     request_delay : {0}]
    /\ bulk \in {NewBulk(op, n, e) : op \in EnumOps, n \in 0..MaxItems, e \in BOOLEAN}
             \cup {NewBulk("batch", n, FALSE) : n \in 0..MaxItems}
    /\ norm = Off /\ cls = Off /\ gen = Off /\ fetch = Off

\* lines 851, 875, 901-904: the for statement takes the next video of the
\* enumeration; download_from_search leaves the loop once video_count has
\* reached result_limit
ForNext ==
    /\ bulk.pc = "next"
    /\ bulk.op \in EnumOps
    /\ bulk' =
         IF bulk.pos = bulk.n
         THEN IF bulk.ends_with_error
              THEN [bulk EXCEPT !.pc = "raised", !.error = EnumerationError]
              ELSE [bulk EXCEPT !.pc = "returned"]
         ELSE IF bulk.op = "search" /\ bulk.video_count >= settings.result_limit
              THEN [bulk EXCEPT !.pos = @ + 1, !.pc = "returned"]
              ELSE [bulk EXCEPT !.pos = @ + 1, !.pc = "item"]
    /\ UNCHANGED <<tvars, settings, norm, cls, gen, fetch>>

\* lines 863-866, 887-890, 917-920: `raise` when ignore_errors is off, else
\* `continue`
AfterItemError_Continue(ignore_errors) == "next"

AfterItemError(ignore_errors) ==
    IF ~ignore_errors THEN "raised" ELSE "next"

\* lines 852-866, 876-890, 905-920: the try statement around
\* download_video_by_url
DownloadItem ==
    /\ bulk.pc = "item"
    /\ bulk.op \in EnumOps
    /\ \E r \in ItemResults :
         LET logged == Append(bulk.log, [item |-> bulk.pos, result |-> r])
             after == AfterItemError(settings.ignore_errors)
         IN  bulk' =
               IF r \in ItemReturns
               THEN [bulk EXCEPT !.log = logged, !.pc = "next",
                                 !.video_count =
                                     IF bulk.op = "search" THEN @ + 1 ELSE @]
               ELSE [bulk EXCEPT !.log = logged, !.pc = after,
                                 !.error = IF after = "raised" THEN r ELSE @]
    /\ UNCHANGED <<tvars, settings, norm, cls, gen, fetch>>

\* web_api.py line 58: the for statement over data['urls']
BatchNext ==
    /\ bulk.pc = "next"
    /\ bulk.op = "batch"
    /\ bulk' = IF bulk.pos = bulk.n
               THEN [bulk EXCEPT !.pc = "respond"]
               ELSE [bulk EXCEPT !.pos = @ + 1, !.pc = "item"]
    /\ UNCHANGED <<tvars, settings, norm, cls, gen, fetch>>

\* web_api.py lines 59-67
BatchItem ==
    /\ bulk.pc = "item"
    /\ bulk.op = "batch"
    /\ \E r \in ItemResults :
         LET logged == Append(bulk.log, [item |-> bulk.pos, result |-> r])
         IN  bulk' =
               IF r \in ItemReturns
               THEN [bulk EXCEPT !.log = logged, !.pc = "next",
                                 !.successful_count = @ + 1]
               ELSE [bulk EXCEPT !.log = logged,
                                 !.failed_urls = Append(@, bulk.pos),
                                 !.pc = IF ~settings.ignore_errors
                                        THEN "respond" ELSE "next"]
    /\ UNCHANGED <<tvars, settings, norm, cls, gen, fetch>>

\* web_api.py lines 69-75
BatchRespond ==
    /\ bulk.pc = "respond"
    /\ bulk' = [bulk EXCEPT
                  !.pc = "returned",
                  !.report = [kind |-> "counts",
                              successful |-> bulk.successful_count,
                              failed |-> Len(bulk.failed_urls),
                              failed_urls |-> bulk.failed_urls,
                              status_code |-> IF bulk.failed_urls # <<>>
                                              THEN 207 ELSE 200]]
    /\ UNCHANGED <<tvars, settings, norm, cls, gen, fetch>>

NextBulk ==
    \/ ForNext
    \/ DownloadItem
    \/ BatchNext
    \/ BatchItem
    \/ BatchRespond

SpecBulk == InitBulk /\ [][NextBulk]_vars

(***************************************************************************)
(* load_video_attributes (shared_functions.py 311-620).  A provider object *)
(* is its type, the step of the extraction that fails on it (if any), the  *)
(* duration it carries and the quality list the extraction attempts find   *)
(* on it.                                                                  *)
(***************************************************************************)
VideoKinds == {"ph", "xv", "xn", "ep", "hq", "mv", "xh", "sp", "yp"}
\* an object of none of the provider classes
OtherKind == "other"

\* a duration: an int, a str or None
IntValue(n) == [type |-> "int", val |-> n, text |-> <<>>]
StrValue(s) == [type |-> "str", val |-> 0, text |-> s]
NoneValue == [type |-> "NoneType", val |-> 0, text |-> <<>>]

\* UnitSearch taking the first number of the text, whatever follows it
UnitSearch_AnyUnit(s, u) ==
    IF FirstDigitRun(s) = <<>> THEN -1 ELSE ParseInt(FirstDigitRun(s))

\* re.search(r'(\d+)\s*u', s): the value of the first run of digits that is
\* followed by optional blanks and the unit letter u, -1 if there is no match
RECURSIVE UnitSearch(_, _)
UnitSearch(s, u) ==
    IF s = <<>> THEN -1
    ELSE IF IsDigit(Head(s))
         THEN LET run == FirstDigitRun(s)
                  rest == SubSeq(s, Len(run) + 1, Len(s))
                  unit == LStrip(rest)
              IN  IF unit # <<>> /\ Head(unit) = u THEN ParseInt(run)
                  ELSE UnitSearch(rest, u)
         ELSE UnitSearch(Tail(s), u)

\* str.split(':')
RECURSIVE Split(_)
Split(s) ==
    IF \A i \in 1..Len(s) : s[i] # ":" THEN <<s>>
    ELSE LET i == CHOOSE k \in 1..Len(s) :
                      s[k] = ":" /\ \A j \in 1..(k - 1) : s[j] # ":"
         IN  <<SubSeq(s, 1, i - 1)>> \o Split(SubSeq(s, i + 1, Len(s)))

\* str.isdigit on the characters of the model
IsDigits(s) == s # <<>> /\ \A i \in 1..Len(s) : IsDigit(s[i])

\* int(part): the value, or ValueError for a part that is no decimal number
IntOf(part) ==
    IF IsDigits(Strip(part)) THEN [raised |-> NoError, val |-> ParseInt(Strip(part))]
    ELSE [raised |-> "ValueError", val |-> 0]

\* lines 622-656: seconds of a duration, or the ValueError of int()
_parse_duration_to_seconds(duration) ==
    IF duration.type = "int" THEN [raised |-> NoError, val |-> duration.val]
    ELSE IF duration.type # "str" THEN [raised |-> NoError, val |-> 0]
    ELSE
      LET d == Lower(duration.text)
          unit(u, k) == IF Contains(d, <<u>>) /\ UnitSearch(d, u) >= 0
                        THEN UnitSearch(d, u) * k ELSE 0
          total_seconds == unit("h", 3600) + unit("m", 60) + unit("s", 1)
          parts == Split(d)
          ints == [i \in 1..Len(parts) |-> IntOf(parts[i])]
          bad == {i \in 1..Len(parts) : ints[i].raised # NoError}
      IN  IF total_seconds # 0 THEN [raised |-> NoError, val |-> total_seconds]
          ELSE IF Contains(d, <<":">>)
               THEN IF Len(parts) \notin {2, 3}
                    THEN [raised |-> NoError, val |-> total_seconds]
                    ELSE IF bad # {} THEN [raised |-> "ValueError", val |-> 0]
                    ELSE IF Len(parts) = 2
                         THEN [raised |-> NoError,
                               val |-> ints[1].val * 60 + ints[2].val]
                         ELSE [raised |-> NoError,
                               val |-> ints[1].val * 3600 + ints[2].val * 60
                                       + ints[3].val]
               ELSE IF IsDigits(d) THEN [raised |-> NoError, val |-> ParseInt(d)]
               ELSE [raised |-> NoError, val |-> total_seconds]

\* lines 598 and 600, 619
TierDefaults == <<best, half, worst>>
ResolutionDefaults == <<q720p, q480p, q360p>>

NA == <<"N/A">>
ErrorTitle == <<"Error: Could not load data">>

\* the outcome of a try body: the error it raised, or the value it produced
Raised(e) == [raised |-> e, data |-> <<>>]
Returned(d) == [raised |-> NoError, data |-> d]

\* lines 326-612: the body of the try statement
ExtractAttributes(video) ==
    IF video.type \notin VideoKinds THEN Raised("TypeError")
    ELSE IF video.fails = "fetch" THEN Raised("ProviderError")
    ELSE IF video.fails = "attribute" THEN Raised("AttributeError")
    ELSE
      LET length == IF video.type = "ep"
                    THEN IntValue(IF video.length.val # 0
                                  THEN video.length.val * 60 ELSE 0)
                    ELSE video.length
          found == IF video.type = "ep" /\ video.found = <<>>
                   THEN <<best, half, worst>>
                   ELSE video.found
          qualities == IF found # <<>> THEN found
                       ELSE IF video.type = "ep" THEN TierDefaults
                       ELSE ResolutionDefaults
          seconds == _parse_duration_to_seconds(length)
      IN  IF seconds.raised # NoError THEN Raised(seconds.raised)
          ELSE Returned([title |-> video.title, author |-> NA,
                         length |-> seconds.val, tags |-> <<>>,
                         publish_date |-> NA, thumbnail |-> None,
                         qualities |-> qualities])

\* lines 614-620: the record returned by the except clause
ErrorRecord ==
    [title |-> ErrorTitle, author |-> NA, length |-> 0, tags |-> <<>>,
     publish_date |-> NA, thumbnail |-> None, qualities |-> ResolutionDefaults]

load_video_attributes_Unguarded(video) == ExtractAttributes(video)

\* lines 311-620
load_video_attributes(video) ==
    IF ExtractAttributes(video).raised # NoError THEN Returned(ErrorRecord)
    ELSE ExtractAttributes(video)

d75 == IntValue(75)
d0 == IntValue(0)
dUnits == StrValue(<<"1", "h", " ", "2", "m", " ", "3", "s">>)
dMin == StrValue(<<"1", "5", " ", "m", "i", "n">>)
dClock == StrValue(<<"1", "2", ":", "3", "4">>)
dClock3 == StrValue(<<"1", ":", "0", "2", ":", "0", "3">>)
dBadClock == StrValue(<<"1", ":", "x", "x">>)
dPlain == StrValue(<<"9", "0">>)
dWord == StrValue(<<"l", "i", "v", "e">>)
Durations == {d75, d0, dUnits, dMin, dClock, dClock3, dBadClock, dPlain, dWord,
              NoneValue}

\* the provider objects handed to load_video_attributes
Videos ==
    {v \in [type : VideoKinds \cup {OtherKind},
            fails : {"none", "fetch", "attribute"},
            title : {<<"t">>},
            length : Durations,
            found : SeqsUpTo({q1080p, q480p, best}, MaxAvail)] :
        v.type \in {"ph", "ep"} => v.length.type = "int"}

InitNormalize ==
    /\ TransfersOff
    /\ settings = DefaultSettings
    /\ norm \in [pc : {"call"}, video : Videos, out : {Raised("unset")}]
    /\ bulk = Off /\ cls = Off /\ gen = Off /\ fetch = Off

NormalizeCall ==
    /\ norm.pc = "call"
    /\ norm' = [norm EXCEPT !.pc = "done", !.out = load_video_attributes(norm.video)]
    /\ UNCHANGED <<tvars, settings, bulk, cls, gen, fetch>>

SpecNormalize == InitNormalize /\ [][NormalizeCall]_vars

(***************************************************************************)
(* A stand-alone call of _parse_duration_to_seconds on the texts a         *)
(* provider writes a duration in: "H:MM:SS", "M:SS", a number of seconds,  *)
(* and numbers followed by units ("1h 2m 3s", "1 hours 2 min 3 sec").      *)
(***************************************************************************)
\* str(n) for a natural number
RECURSIVE DecimalOf(_)
DecimalOf(n) ==
    IF n < 10 THEN <<Digits[n + 1]>>
    ELSE DecimalOf(n \div 10) \o <<Digits[(n % 10) + 1]>>

\* f"{n:02d}"
TwoDigits(n) == IF n < 10 THEN <<"0">> \o DecimalOf(n) ELSE DecimalOf(n)

DurationHours == {0, 1, 2}
DurationMinutes == {0, 2, 17}
DurationSeconds == {0, 3, 16, 34}
DurationPlain == {0, 90, 600}

\* the unit words of the two spellings
UnitWords ==
    [short |-> [h |-> <<"h">>, m |-> <<"m">>, s |-> <<"s">>],
     long |-> [h |-> <<" ", "h", "o", "u", "r", "s">>,
               m |-> <<" ", "m", "i", "n">>,
               s |-> <<" ", "s", "e", "c">>]]

\* the components of `parts` (a subset of {"h", "m", "s"}), blank-separated
UnitText(h, m, s, parts, spelling) ==
    LET w == UnitWords[spelling]
        hs == IF "h" \in parts THEN <<DecimalOf(h) \o w.h>> ELSE <<>>
        ms == IF "m" \in parts THEN <<DecimalOf(m) \o w.m>> ELSE <<>>
        ss == IF "s" \in parts THEN <<DecimalOf(s) \o w.s>> ELSE <<>>
        all == hs \o ms \o ss
    IN  IF Len(all) = 1 THEN all[1]
        ELSE IF Len(all) = 2 THEN all[1] \o <<" ">> \o all[2]
        ELSE all[1] \o <<" ">> \o all[2] \o <<" ">> \o all[3]

DurationForms == {"H:MM:SS", "M:SS", "digits", "units"}

\* the text of a duration input
DurationText(i) ==
    IF i.form = "H:MM:SS"
    THEN DecimalOf(i.h) \o <<":">> \o TwoDigits(i.m) \o <<":">> \o TwoDigits(i.s)
    ELSE IF i.form = "M:SS" THEN DecimalOf(i.m) \o <<":">> \o TwoDigits(i.s)
    ELSE IF i.form = "digits" THEN DecimalOf(i.s)
    ELSE UnitText(i.h, i.m, i.s, i.parts, i.spelling)

DurationInputs ==
    [form : {"H:MM:SS"}, h : DurationHours, m : DurationMinutes,
     s : DurationSeconds, parts : {{}}, spelling : {"short"}]
    \cup [form : {"M:SS"}, h : {0}, m : DurationMinutes,
          s : DurationSeconds, parts : {{}}, spelling : {"short"}]
    \cup [form : {"digits"}, h : {0}, m : {0},
          s : DurationPlain, parts : {{}}, spelling : {"short"}]
    \cup [form : {"units"}, h : DurationHours, m : DurationMinutes,
          s : DurationSeconds, parts : (SUBSET {"h", "m", "s"}) \ {{}},
          spelling : {"short", "long"}]

InitDuration ==
    /\ TransfersOff
    /\ settings = DefaultSettings
    /\ norm \in [pc : {"parse"}, input : DurationInputs, out : {Raised("unset")}]
    /\ bulk = Off /\ cls = Off /\ gen = Off /\ fetch = Off

ParseCall ==
    /\ norm.pc = "parse"
    /\ norm' = [norm EXCEPT
                   !.pc = "parsed",
                   !.out = _parse_duration_to_seconds(
                               StrValue(DurationText(norm.input)))]
    /\ UNCHANGED <<tvars, settings, bulk, cls, gen, fetch>>

SpecDuration == InitDuration /\ [][ParseCall]_vars

(***************************************************************************)
(* The URL signatures of the providers (shared_functions.py 128-136) and   *)
(* check_video (185-246).  URLs and queries are sequences of characters;   *)
(* a pattern is the literal between the two lazy/greedy wildcard groups of *)
(* the regular expression; a "." in it stands for any character.           *)
(***************************************************************************)
hqporner_pattern == <<"h", "q", "p", "o", "r", "n", "e", "r", ".", "c", "o", "m">>
eporner_pattern == <<"e", "p", "o", "r", "n", "e", "r", ".", "c", "o", "m">>
xnxx_pattern == <<"x", "n", "x", "x", ".", "c", "o", "m">>
xvideos_pattern == <<"x", "v", "i", "d", "e", "o", "s", ".", "c", "o", "m">>
pornhub_pattern == <<"p", "o", "r", "n", "h", "u", "b">>
missav_pattern == <<"m", "i", "s", "s", "a", "v">>
xhamster_pattern == <<"x", "h", "a", "m", "s", "t", "e", "r">>
spankbang_pattern == <<"s", "p", "a", "n", "k", "b", "a", "n", "g">>
youporn_pattern == <<"y", "o", "u", "p", "o", "r", "n">>

\* pattern.search(s) for a pattern r'(.*?)literal(.*)': the literal occurs in s,
\* a "." of the literal matching any character
Search(pattern, s) ==
    \E i \in 1..(Len(s) - Len(pattern) + 1) :
        \A k \in 1..Len(pattern) :
            \/ pattern[k] = "." /\ s[i + k - 1] # "\n"
            \/ s[i + k - 1] = pattern[k]

\* str.endswith
EndsWith(s, suffix) ==
    Len(s) >= Len(suffix) /\ SubSeq(s, Len(s) - Len(suffix) + 1, Len(s)) = suffix

\* the pieces the URLs and queries of the model are made of
uEporner == <<"e", "p", "o", "r", "n", "e", "r", ".", "c", "o", "m">>
uXnxx == <<"x", "n", "x", "x", ".", "c", "o", "m">>
uPornhub == <<"p", "o", "r", "n", "h", "u", "b", ".", "c", "o", "m">>
uHqporner == <<"h", "q", "p", "o", "r", "n", "e", "r", ".", "c", "o", "m">>
uXvideos == <<"x", "v", "i", "d", "e", "o", "s", ".", "c", "o", "m">>
uMissav == <<"m", "i", "s", "s", "a", "v", ".", "w", "s">>
uXhamster == <<"x", "h", "a", "m", "s", "t", "e", "r", ".", "c", "o", "m">>
uSpankbang == <<"s", "p", "a", "n", "k", "b", "a", "n", "g", ".", "c", "o", "m">>
uYouporn == <<"y", "o", "u", "p", "o", "r", "n", ".", "c", "o", "m">>
uExample == <<"e", "x", "a", "m", "p", "l", "e", ".", "o", "r", "g">>
uXnxxDash == <<"x", "n", "x", "x", "-", "c", "o", "m">>
uModel == <<"/", "m", "o", "d", "e", "l", "/", "a">>
uPornstar == <<"/", "p", "o", "r", "n", "s", "t", "a", "r", "/", "a">>
uChannel == <<"/", "c", "h", "a", "n", "n", "e", "l", "s", "/", "a">>
uPlaylist == <<"/", "p", "l", "a", "y", "l", "i", "s", "t", "/", "1">>
uHtml == <<"/", "v", ".", "h", "t", "m", "l">>
UrlPieces ==
    {uEporner, uXnxx, uPornhub, uHqporner, uXvideos, uMissav, uXhamster,
     uSpankbang, uYouporn, uExample, uXnxxDash, uModel, uPornstar, uChannel,
     uPlaylist, uHtml}

\* a URL or query: one piece, or two pieces one after the other
Urls == {a \o b : a \in UrlPieces, b \in UrlPieces \cup {<<>>}}

Signatures ==
    {eporner_pattern, xnxx_pattern, pornhub_pattern, hqporner_pattern,
     xvideos_pattern, missav_pattern, xhamster_pattern, spankbang_pattern,
     youporn_pattern}

NoClient == "none"

\* lines 186-246, for url a str: the client check_video asks for the video
ClientOf(url) ==
    IF Search(hqporner_pattern, url) THEN "hq_client"
    ELSE IF Search(eporner_pattern, url) THEN "ep_client"
    ELSE IF Search(xnxx_pattern, url) THEN "xn_client"
    ELSE IF Search(xvideos_pattern, url) THEN "xv_client"
    ELSE IF Search(missav_pattern, url) THEN "mv_client"
    ELSE IF Search(xhamster_pattern, url) THEN "xh_client"
    ELSE IF Search(spankbang_pattern, url) THEN "sp_client"
    ELSE IF Search(youporn_pattern, url) THEN "yp_client"
    ELSE IF ~EndsWith(url, <<".", "h", "t", "m", "l">>) THEN "ph_client"
    ELSE NoClient

InitClassify ==
    /\ TransfersOff
    /\ settings = DefaultSettings
    /\ cls \in [pc : {"call"}, url : Urls, asked : {NoClient}, video : {NoVideo},
                error : {NoError}]
    /\ bulk = Off /\ norm = Off /\ gen = Off /\ fetch = Off

\* downloader.py lines 228-230 with check_video: the client that is asked
\* returns a video or raises; without a client check_video returns False and
\* download_video_by_url raises ValueError
CheckVideo ==
    /\ cls.pc = "call"
    /\ LET client == ClientOf(cls.url)
       IN  IF client = NoClient
           THEN cls' = [cls EXCEPT !.pc = "raised", !.error = "ValueError"]
           ELSE \/ cls' = [cls EXCEPT !.pc = "checked", !.asked = client,
                                      !.video = client]
                \/ cls' = [cls EXCEPT !.pc = "raised", !.asked = client,
                                      !.error = "ProviderError"]
    /\ UNCHANGED <<tvars, settings, bulk, norm, gen, fetch>>

SpecClassify == InitClassify /\ [][CheckVideo]_vars


(***************************************************************************)
(* _get_video_generator (downloader.py 762-843).  A listing a provider     *)
(* client returns is the sequence of its videos: video k of the listing of *)
(* a capability is [provider, capability, index k].                        *)
(***************************************************************************)
\* pattern.match(s) for the same patterns: as Search, with no line break before
\* the literal
Match(pattern, s) ==
    \E i \in 1..(Len(s) - Len(pattern) + 1) :
        /\ \A k \in 1..Len(pattern) :
              \/ pattern[k] = "." /\ s[i + k - 1] # "\n"
              \/ s[i + k - 1] = pattern[k]
        /\ \A j \in 1..(i - 1) : s[j] # "\n"

ListingCall(client, capability) == [client |-> client, capability |-> capability]

\* lines 770-792: the listing calls made for a model query, <<>> for a query
\* no test accepts
ModelListing_PornhubFirst(query) ==
    IF Match(pornhub_pattern, query)
    THEN <<ListingCall("ph_client", "get_user.videos"),
           ListingCall("ph_client", "get_user.uploads")>>
    ELSE IF Search(eporner_pattern, query)
    THEN <<ListingCall("ep_client", "get_pornstar")>>
    ELSE IF Match(xnxx_pattern, query)
    THEN <<ListingCall("xn_client", "get_user")>>
    ELSE IF Match(hqporner_pattern, query)
    THEN <<ListingCall("hq_client", "get_videos_by_actress")>>
    ELSE IF Match(xvideos_pattern, query)
    THEN IF Contains(query, <<"/", "m", "o", "d", "e", "l">>)
            \/ Contains(query, <<"/", "p", "o", "r", "n", "s", "t", "a", "r">>)
         THEN <<ListingCall("xv_client", "get_pornstar")>>
         ELSE <<ListingCall("xv_client", "get_channel")>>
    ELSE IF Match(missav_pattern, query)
    THEN <<ListingCall("mv_client", "get_actress")>>
    ELSE IF Match(xhamster_pattern, query)
    THEN <<ListingCall("xh_client", "get_actress")>>
    ELSE IF Match(spankbang_pattern, query)
    THEN <<ListingCall("sp_client", "get_performer")>>
    ELSE IF Match(youporn_pattern, query)
    THEN <<ListingCall("yp_client", "get_performer")>>
    ELSE <<>>

ModelListing(query) ==
    IF Search(eporner_pattern, query)
    THEN <<ListingCall("ep_client", "get_pornstar")>>
    ELSE IF Match(xnxx_pattern, query)
    THEN <<ListingCall("xn_client", "get_user")>>
    ELSE IF Match(pornhub_pattern, query)
    THEN <<ListingCall("ph_client", "get_user.videos"),
           ListingCall("ph_client", "get_user.uploads")>>
    ELSE IF Match(hqporner_pattern, query)
    THEN <<ListingCall("hq_client", "get_videos_by_actress")>>
    ELSE IF Match(xvideos_pattern, query)
    THEN IF Contains(query, <<"/", "m", "o", "d", "e", "l">>)
            \/ Contains(query, <<"/", "p", "o", "r", "n", "s", "t", "a", "r">>)
         THEN <<ListingCall("xv_client", "get_pornstar")>>
         ELSE <<ListingCall("xv_client", "get_channel")>>
    ELSE IF Match(missav_pattern, query)
    THEN <<ListingCall("mv_client", "get_actress")>>
    ELSE IF Match(xhamster_pattern, query)
    THEN <<ListingCall("xh_client", "get_actress")>>
    ELSE IF Match(spankbang_pattern, query)
    THEN <<ListingCall("sp_client", "get_performer")>>
    ELSE IF Match(youporn_pattern, query)
    THEN <<ListingCall("yp_client", "get_performer")>>
    ELSE <<>>

DefaultProviders_All ==
    <<"pornhub", "xvideos", "xnxx", "eporner", "hqporner", "missav", "xhamster",
      "spankbang", "youporn">>

\* lines 801-802
DefaultProviders == <<"pornhub", "xvideos", "xnxx", "eporner">>

\* lines 807-832: the tests `name in providers`, in the order of the code, each
\* with the client whose search it appends
SearchClients ==
    <<[name |-> "pornhub", client |-> "ph_client"],
      [name |-> "xvideos", client |-> "xv_client"],
      [name |-> "xnxx", client |-> "xn_client"],
      [name |-> "eporner", client |-> "ep_client"],
      [name |-> "hqporner", client |-> "hq_client"],
      [name |-> "missav", client |-> "mv_client"],
      [name |-> "xhamster", client |-> "xh_client"],
      [name |-> "spankbang", client |-> "sp_client"],
      [name |-> "youporn", client |-> "yp_client"]>>

\* Python's `name in providers` on a list
InList(name, providers) == \E i \in 1..Len(providers) : providers[i] = name

\* lines 806-832: active_generators, as the search calls that made them
RECURSIVE ActiveFrom(_, _)
ActiveFrom(k, providers) ==
    IF k > Len(SearchClients) THEN <<>>
    ELSE (IF InList(SearchClients[k].name, providers)
          THEN <<ListingCall(SearchClients[k].client, "search")>> ELSE <<>>)
         \o ActiveFrom(k + 1, providers)

\* the same calls in the order in which the request names the providers
RECURSIVE NamedFrom(_)
NamedFrom(providers) ==
    IF providers = <<>> THEN <<>>
    ELSE (IF \E k \in 1..Len(SearchClients) : SearchClients[k].name = Head(providers)
          THEN LET k == CHOOSE k \in 1..Len(SearchClients) :
                            SearchClients[k].name = Head(providers)
               IN  <<ListingCall(SearchClients[k].client, "search")>>
          ELSE <<>>)
         \o NamedFrom(Tail(providers))

active_generators_AsNamed(providers) == NamedFrom(providers)

active_generators(providers) == ActiveFrom(1, providers)

\* the videos of one listing that yields n videos
Listing(call, n) ==
    [k \in 1..n |-> [client |-> call.client, capability |-> call.capability,
                     index |-> k]]

\* itertools.chain (lines 775 and 838) over the listings of the calls, listing i
\* yielding lens[i] videos
RECURSIVE Chain(_, _)
Chain(listed, lens) ==
    IF listed = <<>> THEN <<>>
    ELSE Listing(Head(listed), Head(lens)) \o Chain(Tail(listed), Tail(lens))

\* the ways the listing calls of an enumeration end: every call returns its
\* listing (listing i of lens[i] videos), or call k raises
Outcomes(listed) ==
    {[pc |-> "returned", invoked |-> listed, sequence |-> Chain(listed, lens),
      error |-> NoError] : lens \in [1..Len(listed) -> 0..MaxResults]}
    \cup {[pc |-> "raised", invoked |-> SubSeq(listed, 1, k), sequence |-> <<>>,
           error |-> "ProviderError"] : k \in 1..Len(listed)}

ValueErrorRaised ==
    [pc |-> "raised", invoked |-> <<>>, sequence |-> <<>>, error |-> "ValueError"]

Ends(o) ==
    gen' = [gen EXCEPT !.pc = o.pc, !.invoked = o.invoked,
                       !.sequence = o.sequence, !.error = o.error]

ProviderNames ==
    {SearchClients[k].name : k \in 1..Len(SearchClients)} \cup {"unknown"}

uNewline == <<"\n">>

InitEnumerate ==
    /\ TransfersOff
    /\ settings = DefaultSettings
    /\ gen \in
         [pc : {"call"}, source_type : {"model", "playlist"},
          query : Urls \cup {uNewline \o u : u \in UrlPieces}, providers : {None},
          invoked : {<<>>}, sequence : {<<>>}, error : {NoError}]
         \cup
         [pc : {"call"}, source_type : {"search", "channel"},
          query : {uExample},
          providers : {None} \cup SeqsUpTo(ProviderNames, MaxProviders),
          invoked : {<<>>}, sequence : {<<>>}, error : {NoError}]
    /\ bulk = Off /\ norm = Off /\ cls = Off /\ fetch = Off

\* lines 769-792
GetModelGenerator ==
    /\ gen.pc = "call"
    /\ gen.source_type = "model"
    /\ IF ModelListing(gen.query) = <<>> THEN Ends(ValueErrorRaised)
       ELSE \E o \in Outcomes(ModelListing(gen.query)) : Ends(o)
    /\ UNCHANGED <<tvars, settings, bulk, norm, cls, fetch>>

\* lines 794-798
GetPlaylistGenerator ==
    /\ gen.pc = "call"
    /\ gen.source_type = "playlist"
    /\ IF ~Contains(gen.query, uPornhub \o <<"/", "p", "l", "a", "y", "l", "i", "s", "t", "/">>)
       THEN Ends(ValueErrorRaised)
       ELSE \E o \in Outcomes(<<ListingCall("ph_client", "get_playlist")>>) : Ends(o)
    /\ UNCHANGED <<tvars, settings, bulk, norm, cls, fetch>>

\* lines 800-838, for providers None or a list of names
GetSearchGenerator ==
    /\ gen.pc = "call"
    /\ gen.source_type = "search"
    /\ LET providers == IF gen.providers = None THEN DefaultProviders
                        ELSE gen.providers
       IN  IF active_generators(providers) = <<>>
           THEN Ends([pc |-> "returned", invoked |-> <<>>, sequence |-> <<>>,
                      error |-> NoError])
           ELSE \E o \in Outcomes(active_generators(providers)) : Ends(o)
    /\ UNCHANGED <<tvars, settings, bulk, norm, cls, fetch>>

\* lines 840-841
GetUnsupportedGenerator ==
    /\ gen.pc = "call"
    /\ gen.source_type \notin {"model", "playlist", "search"}
    /\ Ends(ValueErrorRaised)
    /\ UNCHANGED <<tvars, settings, bulk, norm, cls, fetch>>

_get_video_generator ==
    \/ GetModelGenerator
    \/ GetPlaylistGenerator
    \/ GetSearchGenerator
    \/ GetUnsupportedGenerator

SpecEnumerate == InitEnumerate /\ [][_get_video_generator]_vars

(***************************************************************************)
(* fetch_videos_from_source (downloader.py 923-966), a generator function: *)
(* its body runs from the consumer's first next() and stands still at each *)
(* yield until the consumer asks for the next record or closes it.  A      *)
(* video of the source sequence is "ok", has no URL ("no_url"), makes      *)
(* load_video_attributes answer with its error record ("attr_error"), or   *)
(* raises inside the try statement ("raises").                             *)
(***************************************************************************)
ItemKinds == {"ok", "attr_error", "no_url", "raises"}

\* lines 928-933: float(delay), or the delay left as it is
OverriddenDelay(delay, request_delay) ==
    IF delay.type = "int" THEN delay.val
    ELSE IF delay.type = "str" /\ IntOf(delay.text).raised = NoError
         THEN IntOf(delay.text).val
    ELSE request_delay

EffectiveLimit_Default(limit, result_limit) == result_limit

\* lines 935-940: int(limit), or self.result_limit
EffectiveLimit(limit, result_limit) ==
    IF limit.type = "int" THEN limit.val
    ELSE IF limit.type = "str" /\ IntOf(limit.text).raised = NoError
         THEN IntOf(limit.text).val
    ELSE result_limit

sOne == StrValue(<<"1">>)
sWord == StrValue(<<"x">>)

InitFetch ==
    /\ TransfersOff
    /\ settings \in [ignore_errors : {TRUE}, result_limit : 0..MaxLimit,
                     request_delay : {0, 1}]
    /\ fetch \in
         {f \in [pc : {"new"},
                 delay : {NoneValue, IntValue(2), sWord},
                 limit : {NoneValue, sOne, sWord} \cup {IntValue(n) : n \in 0..MaxLimit},
                 source : SeqsUpTo(ItemKinds, MaxItems),
                 creation_raises : BOOLEAN,
                 ends_with_error : BOOLEAN,
                 pre_call_delay : {0, 1},
                 original_delay : {0}, effective_limit : {0}, pos : {0},
                 video_count : {0}, yielded : {<<>>}, error : {NoError}] :
            /\ f.pre_call_delay = settings.request_delay
            /\ f.creation_raises => (f.source = <<>> /\ ~f.ends_with_error)}
    /\ bulk = Off /\ norm = Off /\ cls = Off /\ gen = Off

\* lines 927-944, run by the first next(): the overrides, then the call of
\* _get_video_generator, which returns the source sequence or raises
FetchStart ==
    /\ fetch.pc = "new"
    /\ settings' = [settings EXCEPT !.request_delay =
                       OverriddenDelay(fetch.delay, settings.request_delay)]
    /\ fetch' = [fetch EXCEPT
                   !.original_delay = settings.request_delay,
                   !.effective_limit =
                       EffectiveLimit(fetch.limit, settings.result_limit),
                   !.pc = IF fetch.creation_raises THEN "raised" ELSE "loop",
                   !.error = IF fetch.creation_raises THEN "ValueError" ELSE @]
    /\ UNCHANGED <<tvars, bulk, norm, cls, gen>>

\* lines 964-966
Restored == [settings EXCEPT !.request_delay = fetch.original_delay]

\* lines 946-963: the loop from the for statement to the next yield, continue,
\* break, exhaustion or error of the source, each way out of the try statement
\* running the finally clause
FetchLoop ==
    /\ fetch.pc = "loop"
    /\ IF fetch.pos = Len(fetch.source)
       THEN /\ fetch' = IF fetch.ends_with_error
                        THEN [fetch EXCEPT !.pc = "raised",
                                           !.error = EnumerationError]
                        ELSE [fetch EXCEPT !.pc = "done"]
            /\ settings' = Restored
       ELSE IF fetch.video_count >= fetch.effective_limit
       THEN /\ fetch' = [fetch EXCEPT !.pos = @ + 1, !.pc = "done"]
            /\ settings' = Restored
       ELSE /\ fetch' =
                 IF fetch.source[fetch.pos + 1] \in {"ok", "attr_error"}
                 THEN [fetch EXCEPT !.pos = @ + 1, !.pc = "yielded",
                                    !.yielded = Append(@, fetch.pos + 1)]
                 ELSE [fetch EXCEPT !.pos = @ + 1]
            /\ UNCHANGED settings
    /\ UNCHANGED <<tvars, bulk, norm, cls, gen>>

\* line 960: the consumer asks for the next record
FetchResume ==
    /\ fetch.pc = "yielded"
    /\ fetch' = [fetch EXCEPT !.video_count = @ + 1, !.pc = "loop"]
    /\ UNCHANGED <<tvars, settings, bulk, norm, cls, gen>>

\* lines 959 and 964-966: the consumer closes the generator, GeneratorExit is
\* raised at the yield and passes the except clause of line 961
FetchClose ==
    /\ fetch.pc = "yielded"
    /\ fetch' = [fetch EXCEPT !.pc = "closed"]
    /\ settings' = Restored
    /\ UNCHANGED <<tvars, bulk, norm, cls, gen>>

NextFetch ==
    \/ FetchStart
    \/ FetchLoop
    \/ FetchResume
    \/ FetchClose

SpecFetch == InitFetch /\ [][NextFetch]_vars

(***************************************************************************)
(* Several fetch_videos_from_source generators alive at once (one per      *)
(* /api/fetch-videos request being streamed), each with a delay override   *)
(* and a source sequence that is created without error.  `left` is the     *)
(* number of records the consumer still takes before the generator ends.   *)
(***************************************************************************)
FetchIds == {"f1", "f2"}

InitOverlap ==
    /\ TransfersOff
    /\ settings \in [ignore_errors : {TRUE}, result_limit : {MaxLimit},
                     request_delay : {0, 1}]
    /\ fetch \in [FetchIds ->
                    {f \in [pc : {"new"}, delay : {IntValue(2), IntValue(3)},
                            original_delay : {0}, left : 0..MaxResults,
                            pre_call_delay : {0, 1}] :
                        f.pre_call_delay = settings.request_delay}]
    /\ bulk = Off /\ norm = Off /\ cls = Off /\ gen = Off

\* lines 926-942, run by the first next() of generator f
OverlapStart(f) ==
    /\ fetch[f].pc = "new"
    /\ settings' = [settings EXCEPT !.request_delay =
                       OverriddenDelay(fetch[f].delay, settings.request_delay)]
    /\ fetch' = [fetch EXCEPT ![f].original_delay = settings.request_delay,
                              ![f].pc = "loop"]
    /\ UNCHANGED <<tvars, bulk, norm, cls, gen>>

\* lines 946-960: one more record is yielded and taken
OverlapYield(f) ==
    /\ fetch[f].pc = "loop"
    /\ fetch[f].left > 0
    /\ fetch' = [fetch EXCEPT ![f].left = @ - 1]
    /\ UNCHANGED <<tvars, settings, bulk, norm, cls, gen>>

\* lines 964-966: the generator ends (exhaustion, limit or close): finally
OverlapEnd(f) ==
    /\ fetch[f].pc = "loop"
    /\ fetch[f].left = 0
    /\ settings' = [settings EXCEPT !.request_delay = fetch[f].original_delay]
    /\ fetch' = [fetch EXCEPT ![f].pc = "done"]
    /\ UNCHANGED <<tvars, bulk, norm, cls, gen>>

NextOverlap ==
    \E f \in FetchIds : OverlapStart(f) \/ OverlapYield(f) \/ OverlapEnd(f)

SpecOverlap == InitOverlap /\ [][NextOverlap]_vars

(***************************************************************************)
(* Properties.                                                             *)
(***************************************************************************)
\* the most provider transfer invocations one branch of perform_download makes
\* (lines 503, 509, 518 and 663, 668, 672)
MaxProviderCalls == 3

Unset == <<"unset">>

Entry(t) == active_downloads[t]

Terminal == {"COMPLETED", "FAILED"}

Results == {"Downloaded", "Skipped"}

\* the step writes COMPLETED to the entry of t
BecomesCompleted(t) ==
    /\ t \in DOMAIN active_downloads'
    /\ active_downloads'[t].status = "COMPLETED"
    /\ t \in DOMAIN active_downloads => active_downloads[t].status # "COMPLETED"

\* C1: the status of a transfer becomes COMPLETED only in a state where the
\* destination file exists and is not empty (the claim as stated)
C1_CompletedOnlyWithFile ==
    [][\A t \in DownloadIds :
          BecomesCompleted(t) =>
              /\ fs'.file[OutFile(t)] # NoFile
              /\ fs'.file[OutFile(t)].size > 0]_vars

\* C2: no registration request is sent for a transfer that ends FAILED with an
\* error raised to its caller (the claim as stated)
C2_NotifiedOnlyOnSuccess ==
    \A t \in DownloadIds :
        (pc[t] = "done" /\ outcome[t] \notin Results
         /\ hist[t].first_terminal = "FAILED")
        => ~\E n \in notified : n.id = t

\* C3: a zero-byte file a transfer wrote to its destination path is gone when
\* the transfer has ended, and is never registered (the claim as stated)
C3_ZeroByteDeleted ==
    /\ \A t \in DownloadIds :
           pc[t] = "done" =>
               ~(fs.file[OutFile(t)].size = 0 /\ fs.file[OutFile(t)].by = t)
    /\ \A n \in notified : n.size_bytes > 0

C5_FailedThenRaised ==
    \A t \in DownloadIds :
        /\ (hist[t].inserted /\ frame[t].err # NoError
            /\ pc[t] \in {"sleep", "release"})
           => (Registered(t) /\ Entry(t).status = "FAILED")
        /\ (pc[t] = "done" /\ frame[t].err # NoError)
           => (outcome[t] = frame[t].err /\ hist[t].caught = frame[t].err)

C5_Witness ==
    \E t \in DownloadIds :
        /\ pc[t] = "release" /\ Registered(t)
        /\ frame[t].err = "fallback_e" /\ Entry(t).status = "FAILED"

AllCallsRaised(t) ==
    calls[t] # <<>> /\ \A i \in 1..Len(calls[t]) : calls[t][i].raised

\* C6: a transfer makes at most MaxProviderCalls provider transfer invocations;
\* when all of them raised it ends FAILED with an error raised to the caller;
\* and every transfer that is DOWNLOADING gets a terminal status
C6_FallbackChainEnds ==
    /\ [](\A t \in DownloadIds :
             /\ Len(calls[t]) <= MaxProviderCalls
             /\ (pc[t] = "done" /\ AllCallsRaised(t))
                => (outcome[t] \notin Results /\ hist[t].first_terminal = "FAILED"))
    /\ \A t \in DownloadIds :
           (Registered(t) /\ Entry(t).status = "DOWNLOADING")
           ~> (hist[t].first_terminal \in Terminal)

C6_Witness ==
    \E t \in DownloadIds :
        /\ pc[t] = "done" /\ Len(calls[t]) = MaxProviderCalls
        /\ AllCallsRaised(t) /\ hist[t].first_terminal = "FAILED"

\* C7: with the skip-existing policy on and a file at the destination path,
\* download_video_by_url returns "Skipped"; a skipped transfer made no provider
\* transfer call, has no registry entry, sent no registration and left the file
\* as it was; and the step that decides to skip changes none of them
C7_SkipExisting ==
    /\ [](\A t \in DownloadIds :
             /\ (conf.skip_existing_files /\ hist[t].found)
                => (frame[t].ret = "Skipped" /\ ~hist[t].inserted)
             /\ frame[t].ret = "Skipped"
                => /\ calls[t] = <<>> /\ cb[t].count = 0
                   /\ ~Registered(t) /\ ~hist[t].inserted
                   /\ \A n \in notified : n.id # t
                   /\ fs.file[OutFile(t)] \in {File(0, "pre"), File(1, "pre")}
                   /\ pc[t] = "done" => outcome[t] = "Skipped")
    /\ [][\A t \in DownloadIds :
             (frame[t].ret = "Skipped" \/ frame'[t].ret = "Skipped")
             => (UNCHANGED <<active_downloads, fs, notified, calls>>)]_vars

C7_Witness ==
    \E t \in DownloadIds :
        /\ pc[t] = "done" /\ outcome[t] = "Skipped"
        /\ conf.skip_existing_files /\ hist[t].found

\* C8: a progress callback never raises, whenever the entry is released (the
\* claim as stated)
C8_CallbackNeverRaises == \A t \in DownloadIds : ~cb[t].raised

\* C9: between its first terminal status and its release, every snapshot of
\* the registry holds the entry of the transfer with that status (the claim as
\* stated)
C9_SnapshotShowsTerminal ==
    \A t \in DownloadIds :
        (hist[t].first_terminal \in Terminal /\ ~hist[t].released)
        => \E e \in get_status : e.id = t /\ e.status = hist[t].first_terminal

\* C10: a failed registration request of a transfer that had completed leaves
\* it COMPLETED, and download_video_by_url returns "Downloaded"
C10_RegistrationFailureHarmless ==
    \A n \in notified :
        (n.response # "ok" /\ n.err = NoError)
        => /\ frame[n.id].err = NoError
           /\ pc[n.id] # "except"
           /\ Registered(n.id) => Entry(n.id).status = "COMPLETED"
           /\ pc[n.id] = "done" => outcome[n.id] = "Downloaded"

C10_Witness ==
    \E n \in notified :
        /\ n.response = "ConnectionError" /\ n.status = "COMPLETED"
        /\ pc[n.id] = "done" /\ outcome[n.id] = "Downloaded"

(***************************************************************************)
(* Properties of the bulk operations.                                      *)
(***************************************************************************)
Attempted == {bulk.log[k].item : k \in 1..Len(bulk.log)}
Failed == {bulk.log[k].item : k \in {j \in 1..Len(bulk.log) :
                                         bulk.log[j].result \in ItemErrors}}
Ended == bulk.pc \in {"returned", "raised"}

\* C11: in download_from_model, download_from_playlist and
\* download_from_search, with ignore_errors true a failed item never keeps a
\* later item of the enumeration from being attempted (an item is left out
\* only when download_from_search has reached result_limit successes) and no
\* item's error reaches the caller; with ignore_errors false the first failed
\* item is the last item attempted and its error is raised to the caller
C11_ContinueOrHalt ==
    bulk.op \in EnumOps =>
        /\ settings.ignore_errors =>
              /\ bulk.pc = "raised" => bulk.error = EnumerationError
              /\ Ended => \A j \in 1..bulk.n :
                     \/ j \in Attempted
                     \/ /\ bulk.op = "search"
                        /\ Cardinality(Attempted \ Failed) >= settings.result_limit
              /\ \A i \in Failed : i < bulk.n => ~(Ended /\ bulk.pos = i)
        /\ ~settings.ignore_errors =>
              \A k \in 1..Len(bulk.log) :
                 bulk.log[k].result \in ItemErrors
                 => /\ k = Len(bulk.log)
                    /\ bulk.pc = "raised"
                    /\ bulk.error = bulk.log[k].result

\* an operation that went on after a failed item and attempted the next one
C11_Witness ==
    /\ bulk.op \in EnumOps
    /\ settings.ignore_errors
    /\ bulk.pc = "returned"
    /\ \E i \in Failed : i + 1 \in Attempted

\* an operation halted by its first failed item, with items left
C11_WitnessHalt ==
    /\ bulk.op \in EnumOps
    /\ ~settings.ignore_errors
    /\ bulk.pc = "raised"
    /\ Failed # {}
    /\ bulk.pos < bulk.n

\* the items of the log whose transfer raised, in the order of the attempts
RECURSIVE FailedItems(_)
FailedItems(log) ==
    IF log = <<>> THEN <<>>
    ELSE IF Head(log).result \in ItemErrors
         THEN <<Head(log).item>> \o FailedItems(Tail(log))
         ELSE FailedItems(Tail(log))

\* C12: every bulk operation (model, playlist, search, URL batch) that returns
\* hands its caller the number of succeeded items, the number of failed items
\* and the failed identifiers: the two counts add up to the items attempted
\* and the failed list holds exactly the items whose transfer raised
C12_AggregateReported ==
    bulk.pc = "returned" =>
        /\ bulk.report.kind = "counts"
        /\ bulk.report.successful + bulk.report.failed = Len(bulk.log)
        /\ bulk.report.failed_urls = FailedItems(bulk.log)

\* the URL batch alone does report the aggregate
C12_BatchAggregate ==
    (bulk.op = "batch" /\ bulk.pc = "returned") =>
        /\ bulk.report.kind = "counts"
        /\ bulk.report.successful + bulk.report.failed = Len(bulk.log)
        /\ bulk.report.failed_urls = FailedItems(bulk.log)

(***************************************************************************)
(* Properties of load_video_attributes.                                    *)
(***************************************************************************)
MetadataKeys ==
    {"title", "author", "length", "tags", "publish_date", "thumbnail", "qualities"}

\* C13: load_video_attributes never raises: for every provider object, one of
\* an unsupported type and one whose fetch, attribute access or duration makes
\* the extraction fail included, it returns a record with the seven keys; when
\* the extraction failed the record has the title "Error: Could not load data"
\* and the default qualities
C13_NormalizerNeverRaises ==
    norm.pc = "done" =>
        /\ norm.out.raised = NoError
        /\ DOMAIN norm.out.data = MetadataKeys
        /\ norm.out.data.length \in Nat
        /\ ExtractAttributes(norm.video).raised # NoError
           => /\ norm.out.data.title = ErrorTitle
              /\ norm.out.data.qualities = ResolutionDefaults

\* the normalizer has answered for an object whose duration cannot be parsed
C13_Witness ==
    /\ norm.pc = "done"
    /\ norm.video.type \in VideoKinds
    /\ norm.video.fails = "none"
    /\ _parse_duration_to_seconds(norm.video.length).raised = "ValueError"
    /\ norm.out.data.title = ErrorTitle

\* the extraction produced no quality list for the object: the attempts found
\* nothing, or the extraction failed before or after them
NoQualityExtracted(video) ==
    \/ video.found = <<>>
    \/ ExtractAttributes(video).raised # NoError

ProviderDefaults(video) ==
    IF video.type = "ep" THEN TierDefaults ELSE ResolutionDefaults

\* C14: the qualities of every record load_video_attributes returns are
\* non-empty, and when the extraction yields no quality they are exactly
\* [best, half, worst] for an Eporner object and [720p, 480p, 360p] for an
\* object of a resolution-based provider
C14_QualitiesDefault ==
    (norm.pc = "done" /\ norm.video.type \in VideoKinds) =>
        /\ norm.out.data.qualities # <<>>
        /\ NoQualityExtracted(norm.video)
           => norm.out.data.qualities = ProviderDefaults(norm.video)

\* what does hold: the list is never empty, and an extraction that ends
\* without an error and without a quality gets the defaults of the provider
C14_DefaultsAfterCleanExtraction ==
    (norm.pc = "done" /\ norm.video.type \in VideoKinds) =>
        /\ norm.out.data.qualities # <<>>
        /\ (norm.video.found = <<>> /\ ExtractAttributes(norm.video).raised = NoError)
           => norm.out.data.qualities = ProviderDefaults(norm.video)

(***************************************************************************)
(* Properties of the classification of a URL.                              *)
(***************************************************************************)
MatchesNoSignature(url) == \A pattern \in Signatures : ~Search(pattern, url)

\* C15: a single-URL transfer request whose URL matches the URL signature of
\* no provider ends with an error raised to the caller, and no provider client
\* has been asked for a video of that URL
C15_UnmatchedUrlFails ==
    (cls.pc # "call" /\ MatchesNoSignature(cls.url)) =>
        /\ cls.pc = "raised"
        /\ cls.error # NoError
        /\ cls.asked = NoClient

\* what does hold: an unmatched URL that ends in ".html" is refused unasked
C15_UnmatchedHtmlFails ==
    (cls.pc # "call" /\ MatchesNoSignature(cls.url)
       /\ EndsWith(cls.url, <<".", "h", "t", "m", "l">>)) =>
        /\ cls.pc = "raised"
        /\ cls.error = "ValueError"
        /\ cls.asked = NoClient

(***************************************************************************)
(* Properties of _get_video_generator.                                     *)
(***************************************************************************)
\* the signatures in the order of the model branch, each with the test the code
\* applies (search for eporner, match for the others) and its client
SignatureOrder ==
    <<[pattern |-> eporner_pattern, anywhere |-> TRUE, client |-> "ep_client"],
      [pattern |-> xnxx_pattern, anywhere |-> FALSE, client |-> "xn_client"],
      [pattern |-> pornhub_pattern, anywhere |-> FALSE, client |-> "ph_client"],
      [pattern |-> hqporner_pattern, anywhere |-> FALSE, client |-> "hq_client"],
      [pattern |-> xvideos_pattern, anywhere |-> FALSE, client |-> "xv_client"],
      [pattern |-> missav_pattern, anywhere |-> FALSE, client |-> "mv_client"],
      [pattern |-> xhamster_pattern, anywhere |-> FALSE, client |-> "xh_client"],
      [pattern |-> spankbang_pattern, anywhere |-> FALSE, client |-> "sp_client"],
      [pattern |-> youporn_pattern, anywhere |-> FALSE, client |-> "yp_client"]>>

Accepts(k, query) ==
    IF SignatureOrder[k].anywhere THEN Search(SignatureOrder[k].pattern, query)
    ELSE Match(SignatureOrder[k].pattern, query)

Accepting(query) == {k \in 1..Len(SignatureOrder) : Accepts(k, query)}

\* C16: a model enumeration tests the query against the signatures in the order
\* eporner, xnxx, pornhub, hqporner, xvideos, missav, xhamster, spankbang,
\* youporn and invokes the listing of the first provider whose signature
\* matches, and of no other provider, also when several match; when none
\* matches it raises an error and invokes no provider
C16_FirstMatchWins ==
    (gen.source_type = "model" /\ gen.pc # "call") =>
        IF Accepting(gen.query) = {}
        THEN /\ gen.pc = "raised"
             /\ gen.error = "ValueError"
             /\ gen.invoked = <<>>
        ELSE LET first == CHOOSE k \in Accepting(gen.query) :
                              \A j \in Accepting(gen.query) : k <= j
             IN  /\ gen.invoked # <<>>
                 /\ \A i \in 1..Len(gen.invoked) :
                       gen.invoked[i].client = SignatureOrder[first].client

\* a model enumeration has returned for a query that two signatures match
C16_Witness ==
    /\ gen.source_type = "model"
    /\ gen.pc = "returned"
    /\ Cardinality(Accepting(gen.query)) >= 2
    /\ gen.invoked # <<>>

\* the place of a provider's client in the registration order pornhub, xvideos,
\* xnxx, eporner, hqporner, missav, xhamster, spankbang, youporn
RegistrationOrder ==
    <<"ph_client", "xv_client", "xn_client", "ep_client", "hq_client", "mv_client",
      "xh_client", "sp_client", "yp_client">>

Place(client) == CHOOSE k \in 1..Len(RegistrationOrder) : RegistrationOrder[k] = client

\* the names of a providers argument
Named(providers) ==
    IF providers = None THEN Range(DefaultProviders) ELSE Range(providers)

\* C17: the combined search sequence yields all results of one selected provider
\* before any result of the next, in the order pornhub, xvideos, xnxx, eporner,
\* hqporner, missav, xhamster, spankbang, youporn whatever the order of the
\* names in the request; results of two providers are never interleaved, and
\* the results of one provider keep their order
C17_SearchInRegistrationOrder ==
    (gen.source_type = "search" /\ gen.pc = "returned") =>
        /\ \A i, j \in 1..Len(gen.sequence) :
              i < j =>
                 \/ Place(gen.sequence[i].client) < Place(gen.sequence[j].client)
                 \/ /\ gen.sequence[i].client = gen.sequence[j].client
                    /\ gen.sequence[i].index < gen.sequence[j].index
        /\ \A i, j \in 1..Len(gen.invoked) :
              i < j => Place(gen.invoked[i].client) < Place(gen.invoked[j].client)
        /\ \A k \in 1..Len(SearchClients) :
              SearchClients[k].name \in Named(gen.providers)
              <=> \E i \in 1..Len(gen.invoked) :
                     gen.invoked[i].client = SearchClients[k].client

\* a search that named xvideos before pornhub and got results of both
C17_Witness ==
    /\ gen.source_type = "search"
    /\ gen.pc = "returned"
    /\ gen.providers = <<"xvideos", "pornhub">>
    /\ \E i, j \in 1..Len(gen.sequence) :
          /\ i < j
          /\ gen.sequence[i].client = "ph_client"
          /\ gen.sequence[j].client = "xv_client"

KnownNames == {SearchClients[k].name : k \in 1..Len(SearchClients)}

\* C18: a search enumeration whose providers list names no known provider (an
\* empty list, or unknown names only) returns an empty sequence, raises no
\* error and asks no client; with providers absent it searches exactly pornhub,
\* xvideos, xnxx and eporner
C18_EmptySelectionAndDefault ==
    (gen.source_type = "search" /\ gen.pc # "call") =>
        /\ (gen.providers # None /\ Range(gen.providers) \cap KnownNames = {})
           => /\ gen.pc = "returned"
              /\ gen.error = NoError
              /\ gen.sequence = <<>>
              /\ gen.invoked = <<>>
        /\ (gen.providers = None /\ gen.pc = "returned")
           => {gen.invoked[i].client : i \in 1..Len(gen.invoked)}
                = {"ph_client", "xv_client", "xn_client", "ep_client"}

\* a search over unknown names only has returned
C18_Witness ==
    /\ gen.source_type = "search"
    /\ gen.pc = "returned"
    /\ gen.providers = <<"unknown", "unknown">>
    /\ gen.sequence = <<>>

\* a search without a providers argument has returned results
C18_WitnessDefault ==
    /\ gen.source_type = "search"
    /\ gen.pc = "returned"
    /\ gen.providers = None
    /\ Len(gen.sequence) > Len(DefaultProviders)

(***************************************************************************)
(* Properties of fetch_videos_from_source.                                 *)
(***************************************************************************)
\* the limit of the request: its limit argument when that is a number, else
\* the configured result_limit
RequestedLimit ==
    IF fetch.limit = NoneValue \/ fetch.limit = sWord THEN settings.result_limit
    ELSE IF fetch.limit = sOne THEN 1
    ELSE fetch.limit.val

\* the videos of the source that are not skipped
Yieldable == {i \in 1..Len(fetch.source) : fetch.source[i] \in {"ok", "attr_error"}}

FetchEnded == fetch.pc \in {"done", "raised", "closed"}

\* C19: fetch_videos_from_source never yields more records than the limit (the
\* configured result_limit when no valid limit is given), whatever videos of
\* the source fail or have no URL; skipped videos do not count: a fetch that
\* runs to its end has yielded every video that is not skipped, up to the limit
C19_AtMostLimit ==
    fetch.pc # "new" =>
        /\ Len(fetch.yielded) <= RequestedLimit
        /\ fetch.pc = "done" =>
              Len(fetch.yielded) =
                 IF Cardinality(Yieldable) < RequestedLimit
                 THEN Cardinality(Yieldable) ELSE RequestedLimit

\* a fetch has ended at its limit after skipping a video
C19_Witness ==
    /\ fetch.pc = "done"
    /\ RequestedLimit > 0
    /\ Len(fetch.yielded) = RequestedLimit
    /\ \E i \in 1..fetch.pos : fetch.source[i] \in {"no_url", "raises"}
    /\ fetch.pos <= Len(fetch.source)
    /\ Cardinality(Yieldable) > RequestedLimit

\* C20: when fetch_videos_from_source is given a delay override, the shared
\* request delay has its pre-call value once the fetch has ended: by exhausting
\* the source, by reaching the limit, by an error raised during enumeration, or
\* by an error raised while the source sequence is created
C20_DelayRestored ==
    (fetch.delay # NoneValue /\ FetchEnded) =>
        settings.request_delay = fetch.pre_call_delay

\* what does hold: the delay is restored once a fetch whose source sequence was
\* created has ended
C20_DelayRestoredAfterCreation ==
    (fetch.delay # NoneValue /\ FetchEnded /\ ~fetch.creation_raises) =>
        settings.request_delay = fetch.pre_call_delay

\* a fetch with a delay override has ended by an error of the enumeration, the
\* delay restored
C20_WitnessRestored ==
    /\ fetch.delay = IntValue(2)
    /\ fetch.pc = "raised"
    /\ ~fetch.creation_raises
    /\ fetch.yielded # <<>>
    /\ settings.request_delay = fetch.pre_call_delay

(***************************************************************************)
(* Properties of the status of a transfer and of the reconciliation.       *)
(***************************************************************************)
\* C21: the status of a registered transfer changes only from DOWNLOADING to
\* COMPLETED or from DOWNLOADING to FAILED; a status COMPLETED or FAILED never
\* changes again, whatever write_tags and the registration do afterwards
C21_StatusOnlyLeavesDownloading ==
    [][\A t \in DownloadIds :
          (Registered(t) /\ t \in DOMAIN active_downloads')
          => \/ active_downloads'[t].status = active_downloads[t].status
             \/ /\ active_downloads[t].status = "DOWNLOADING"
                /\ active_downloads'[t].status \in Terminal]_vars

\* what does hold: a status FAILED never changes again, and no status ever
\* returns to DOWNLOADING
C21_FailedIsFinal ==
    [][\A t \in DownloadIds :
          (Registered(t) /\ t \in DOMAIN active_downloads')
          => /\ active_downloads[t].status = "FAILED"
                => active_downloads'[t].status = "FAILED"
             /\ active_downloads[t].status \in Terminal
                => active_downloads'[t].status \in Terminal]_vars

\* C22: every provider transfer call of a transfer is given the directory
\* temp_<download_id> of that transfer as its target: never the final path,
\* never the shared download directory
C22_CallsTargetTempDir ==
    \A t \in DownloadIds : \A k \in 1..Len(calls[t]) :
        /\ calls[t][k].dir = TempDir(t)
        /\ calls[t][k].name = NoName

\* what does hold: temp_<download_id> is the target only of the second call of
\* the HQPorner / Eporner / YouPorn branch and of the generic branch, after the
\* call to the final path has failed
C22_TempDirOnlyAsFallback ==
    \A t \in DownloadIds : \A k \in 1..Len(calls[t]) :
        calls[t][k].dir = TempDir(t)
        => /\ k = 2
           /\ frame[t].video \in DirectTypes \cup GenericTypes
           /\ calls[t][1] =
                 Call(DownloadDir, OutName(t), frame[t].final_quality, calls[t][1].raised)

\* the directory a reconciling step of transfer t looks into
ReconcileDir(t) == IF pc[t] = "xv_reconcile" THEN DownloadDir ELSE TempDir(t)

ReconcileSteps == {"xv_reconcile", "direct_reconcile", "generic_reconcile"}

\* the names the call added to the directory
NewFiles(t) == ListDir(ReconcileDir(t)) \ frame[t].files_before

\* the call of transfer t wrote a non-empty file at output_path itself
CreatedDirectly(t) ==
    /\ Exists(OutFile(t))
    /\ fs.file[OutFile(t)].by = t
    /\ GetSize(OutFile(t)) > 0

\* the step moves the file `n` of the reconciled directory to output_path
MovedToFinal(t, n) ==
    /\ fs'.file[OutFile(t)] = fs.file[Path(ReconcileDir(t), n)]
    /\ fs'.file[Path(ReconcileDir(t), n)] = NoFile

\* C23: when the call returned, the directory gained exactly one new file and
\* the final path was not created directly, the reconciling step renames that
\* file to the final path and the transfer goes on to complete.
C23_SingleNewFileRenamed ==
    [][\A t \in DownloadIds :
          (/\ pc[t] \in ReconcileSteps
           /\ pc'[t] # pc[t]
           /\ Cardinality(NewFiles(t)) = 1
           /\ ~CreatedDirectly(t))
          => /\ \E n \in NewFiles(t) : MovedToFinal(t, n)
             /\ frame'[t].err = frame[t].err
             /\ pc'[t] \in {"completed", "direct_cleanup", "generic_cleanup"}]_vars

\* C23, the part that holds: in the temporary-directory branches the single
\* new file is renamed to the final path, and the cleanup that follows leaves
\* the temporary directory empty and removed before the transfer completes.
C23_TempBranchRenamesAndCleans ==
    [][\A t \in DownloadIds :
          /\ (/\ pc[t] \in {"direct_reconcile", "generic_reconcile"}
              /\ pc'[t] # pc[t]
              /\ Cardinality(NewFiles(t)) = 1)
             => /\ \E n \in NewFiles(t) : MovedToFinal(t, n)
                /\ frame'[t].err = NoError
          /\ (/\ pc[t] \in {"direct_cleanup", "generic_cleanup"}
              /\ pc'[t] # pc[t])
             => /\ t \notin fs'.dirs
                /\ \A n \in DirNames(TempDir(t)) :
                      fs'.file[Path(TempDir(t), n)] = NoFile
                /\ pc'[t] = IF frame[t].err = NoError THEN "completed"
                            ELSE "pd_finally"]_vars

\* the new files of the reconciled directory that carry a video extension
NewVideoFiles(t) == {n \in NewFiles(t) : HasVideoExtension(n)}

\* line 528: a non-empty file at output_path ends the XVideos reconciliation
FoundAtFinalPath(t) ==
    /\ pc[t] = "xv_reconcile"
    /\ Exists(OutFile(t))
    /\ GetSize(OutFile(t)) > 0

\* the step leaves output_path as it was
NothingPromoted(t) == fs'.file[OutFile(t)] = fs.file[OutFile(t)]

\* C24: on every branch that reconciles a directory, when the call made more
\* than one new file appear: if exactly one has a video extension, that one
\* and no other is moved to the final path and every other new file is
\* deleted; if none has, the transfer fails and nothing is promoted.
C24_MultiFileReconciliation ==
    [][\A t \in DownloadIds :
          (/\ pc[t] \in ReconcileSteps
           /\ pc'[t] # pc[t]
           /\ Cardinality(NewFiles(t)) > 1
           /\ ~FoundAtFinalPath(t))
          => /\ Cardinality(NewVideoFiles(t)) = 1
                => /\ \E n \in NewVideoFiles(t) : MovedToFinal(t, n)
                   /\ \A n \in NewFiles(t) :
                         fs'.file[Path(ReconcileDir(t), n)] = NoFile
                   /\ frame'[t].err = frame[t].err
             /\ NewVideoFiles(t) = {}
                => /\ frame'[t].err = "FileNotFoundError"
                   /\ NothingPromoted(t)]_vars

\* C24, the part that holds: the XVideos branch and the generic branch treat
\* several new files as claimed.
C24_XvAndGenericReconcile ==
    [][\A t \in DownloadIds :
          (/\ pc[t] \in {"xv_reconcile", "generic_reconcile"}
           /\ pc'[t] # pc[t]
           /\ Cardinality(NewFiles(t)) > 1
           /\ ~FoundAtFinalPath(t))
          => /\ Cardinality(NewVideoFiles(t)) = 1
                => /\ \E n \in NewVideoFiles(t) : MovedToFinal(t, n)
                   /\ \A n \in NewFiles(t) :
                         fs'.file[Path(ReconcileDir(t), n)] = NoFile
                   /\ frame'[t].err = frame[t].err
             /\ NewVideoFiles(t) = {}
                => /\ frame'[t].err = "FileNotFoundError"
                   /\ NothingPromoted(t)]_vars

\* C25: when the call returned without raising, there is no non-empty file at
\* the final path and the call added no file to its directory, the transfer fails:
\* it does not go on to complete and nothing is moved to the final path.
C25_NoNewFileFails ==
    [][\A t \in DownloadIds :
          (/\ pc[t] \in ReconcileSteps
           /\ pc'[t] # pc[t]
           /\ NewFiles(t) = {}
           /\ ~(Exists(OutFile(t)) /\ GetSize(OutFile(t)) > 0))
          => /\ frame'[t].err = "FileNotFoundError"
             /\ NothingPromoted(t)
             /\ pc'[t] # "completed"]_vars

\* C25, the part that holds: the temporary-directory branches fail when the
\* call added nothing, and the XVideos branch fails when, in addition, the
\* download directory holds no recent non-empty video file.
C25_FailsWithoutCandidate ==
    [][\A t \in DownloadIds :
          (/\ pc[t] \in ReconcileSteps
           /\ pc'[t] # pc[t]
           /\ NewFiles(t) = {}
           /\ ~FoundAtFinalPath(t)
           /\ pc[t] = "xv_reconcile" => RecentVideoFiles = {})
          => /\ frame'[t].err = "FileNotFoundError"
             /\ NothingPromoted(t)
             /\ pc'[t] # "completed"]_vars

(***************************************************************************)
(* Properties of the quality resolver.                                     *)
(***************************************************************************)
\* the tokens of the list of the call, stripped, without the blank ones
Tokens == {Strip(a) : a \in Range(resolve_in.available)} \ {<<>>}

\* the call works in the resolution universe: some token, and no tier token
ResolutionUniverse == Tokens # {} /\ Tokens \cap TierTokens = {}

\* the call works in the tier universe
TierUniverse == Tokens \cap TierTokens # {}

IsMaxKey(q, S) == \A x \in S : quality_sort_key(q) >= quality_sort_key(x)

IsMinKey(q, S) == \A x \in S : quality_sort_key(q) <= quality_sort_key(x)

\* C26: for every non-empty list, a request of "best" returns an element of
\* the list whose sort key is the maximum over the list and a request of
\* "worst" one whose sort key is the minimum (the claim as stated)
C26_BestWorstOfEveryList ==
    (resolve_out # Unset /\ resolve_in.available # <<>>)
    => /\ resolve_in.requested = best
          => /\ resolve_out \in Range(resolve_in.available)
             /\ IsMaxKey(resolve_out, Range(resolve_in.available))
       /\ resolve_in.requested = worst
          => /\ resolve_out \in Range(resolve_in.available)
             /\ IsMinKey(resolve_out, Range(resolve_in.available))

\* C26, amended: in the resolution universe a request of "best" returns the
\* stripped form of a token whose sort key is the maximum over the non-blank
\* tokens of the list, and a request of "worst" one whose key is the minimum
C26_BestWorstInResolutionUniverse ==
    (resolve_out # Unset /\ ResolutionUniverse)
    => /\ resolve_in.requested = best
          => resolve_out \in Tokens /\ IsMaxKey(resolve_out, Tokens)
       /\ resolve_in.requested = worst
          => resolve_out \in Tokens /\ IsMinKey(resolve_out, Tokens)

C26_Witness ==
    /\ resolve_in.requested = best
    /\ resolve_in.available = <<q480p, q1080p>>
    /\ resolve_out = q1080p

\* the number of tokens of the call whose sort key is above that of q
KeysAbove(q) == Cardinality({x \in Tokens : quality_sort_key(x) > quality_sort_key(q)})

\* the number of tokens of the call whose sort key is at least that of q
KeysAtLeast(q) == Cardinality({x \in Tokens : quality_sort_key(x) >= quality_sort_key(q)})

\* C27: in the resolution universe a request of "half" returns the element at
\* index len // 2 (from zero) of the deduplicated tokens in descending order of
\* sort key: len // 2 tokens at most rank above it, and it is the token the
\* stable descending sort puts at that index.
C27_HalfIsIndexLenDiv2 ==
    (resolve_out # Unset /\ ResolutionUniverse /\ resolve_in.requested = half)
    => LET n == Cardinality(Tokens)
           sorted == sorted_qualities(normalized_qualities(resolve_in.available))
       IN  /\ resolve_out \in Tokens
           /\ Len(sorted) = n
           /\ resolve_out = sorted[(n \div 2) + 1]
           /\ KeysAbove(resolve_out) <= n \div 2
           /\ KeysAtLeast(resolve_out) >= (n \div 2) + 1

\* four tokens of different keys: the third in descending order is returned
C27_Witness ==
    /\ resolve_in.requested = half
    /\ resolve_in.available = <<q480p, q1080p, q360p, q720p>>
    /\ resolve_out = q480p

\* the first token of the list of the call that is not blank, stripped
FirstToken ==
    LET av == resolve_in.available
        i == CHOOSE i \in 1..Len(av) :
                 Strip(av[i]) # <<>> /\ \A j \in 1..(i - 1) : Strip(av[j]) = <<>>
    IN  Strip(av[i])

BestOrFirst == IF best \in Tokens THEN best ELSE FirstToken

MappedTier(requested_quality) ==
    IF requested_quality \in {q720p, q1080p, q1440p, q2160p} THEN best
    ELSE IF requested_quality \in {q480p, q540p} THEN half
    ELSE worst

\* C29: in the tier universe a request that is not a tier maps to best
\* (720p, 1080p, 1440p, 2160p), half (480p, 540p) or worst (anything else);
\* the mapped tier is returned if it is in the list, else "best" if it is in
\* the list, else the first token.
C29_MappedTierOrBestOrFirst ==
    (resolve_out # Unset /\ TierUniverse /\ resolve_in.requested \notin TierTokens)
    => resolve_out = IF MappedTier(resolve_in.requested) \in Tokens
                     THEN MappedTier(resolve_in.requested) ELSE BestOrFirst

\* C29, the part that holds: the mapping, and the fallback to "best" and then
\* to the first token for the requests that map to best or half; a request
\* that maps to worst falls back to the first token at once.
C29_MappedTierFallbackOfTheCode ==
    (resolve_out # Unset /\ TierUniverse /\ resolve_in.requested \notin TierTokens)
    => resolve_out = IF MappedTier(resolve_in.requested) \in Tokens
                     THEN MappedTier(resolve_in.requested)
                     ELSE IF MappedTier(resolve_in.requested) = worst
                     THEN FirstToken ELSE BestOrFirst

\* lines 169-171: the embedded integer the sort key reads from a token
HasNumericValue(q) == FirstDigitRun(Lower(q)) # <<>>

NumericValue(q) == ParseInt(FirstDigitRun(Lower(q)))

\* the request of the call is a number with a unit that no token of the list
\* equals, neither exactly nor ignoring case
NumericRequestUnmatched ==
    /\ resolve_in.requested \notin TierTokens
    /\ HasNumericValue(resolve_in.requested)
    /\ \A x \in Tokens : Lower(x) # Lower(resolve_in.requested)

\* the numeric tokens whose value is at most the value of the request
AtMostRequested ==
    {x \in Tokens : /\ HasNumericValue(x)
                    /\ NumericValue(x) <= NumericValue(resolve_in.requested)}

\* C30: in the resolution universe a numeric request that matches no token
\* resolves to a token of the greatest numeric value not above the requested
\* value, the numeric value being the embedded integer of the sort key; when
\* no token is at or below the request, to a token of the lowest sort key.
C30_ClosestBelowOrEqual ==
    (resolve_out # Unset /\ ResolutionUniverse /\ NumericRequestUnmatched)
    => /\ resolve_out \in Tokens
       /\ IF AtMostRequested # {}
          THEN /\ resolve_out \in AtMostRequested
               /\ \A x \in AtMostRequested : NumericValue(resolve_out) >= NumericValue(x)
          ELSE IsMinKey(resolve_out, Tokens)

\* every token of the call, and the request, holds one run of digits at most,
\* so that the digits kept by line 200 / 204 are the integer of the sort key
SingleNumberTokens ==
    \A x \in Tokens \cup {resolve_in.requested} : OnlyDigits(x) = FirstDigitRun(Lower(x))

\* C30, the part that holds: the same statement for tokens that hold a single
\* number (1080p, 480p, ...), as in the example [1080p, 480p] with 720p.
C30_ClosestBelowOrEqualSingleNumber ==
    (resolve_out # Unset /\ ResolutionUniverse /\ NumericRequestUnmatched
        /\ SingleNumberTokens)
    => /\ resolve_out \in Tokens
       /\ IF AtMostRequested # {}
          THEN /\ resolve_out \in AtMostRequested
               /\ \A x \in AtMostRequested : NumericValue(resolve_out) >= NumericValue(x)
          ELSE IsMinKey(resolve_out, Tokens)

C30_ExampleReached ==
    /\ resolve_in.requested = q720p
    /\ resolve_in.available = <<q1080p, q480p>>
    /\ resolve_out = q480p

\* the tokens of the call that equal the request when case is ignored
SameIgnoringCase == {x \in Tokens : Lower(x) = Lower(resolve_in.requested)}

\* C31: in the resolution universe a requested token that is in the list is
\* returned unchanged; failing that, a token of the list equal to it ignoring
\* case is returned; the closest-below search is not consulted in either case.
C31_ExactThenCaseInsensitive ==
    (resolve_out # Unset /\ ResolutionUniverse /\ resolve_in.requested \notin TierTokens)
    => /\ resolve_in.requested \in Tokens => resolve_out = resolve_in.requested
       /\ (resolve_in.requested \notin Tokens /\ SameIgnoringCase # {})
          => resolve_out \in SameIgnoringCase

\* an exact match of a request without digits: the search would return 720p
C31_Witness ==
    /\ resolve_in.requested = qHD
    /\ resolve_in.available = <<q720p, qHD>>
    /\ resolve_out = qHD

\* a match ignoring case
C31_CaseWitness ==
    /\ resolve_in.requested = q720p
    /\ resolve_in.available = <<q1080p, q720P>>
    /\ resolve_out = q720P

\* the seconds a duration input stands for
SecondsOf(i) ==
    IF i.form = "H:MM:SS" THEN 3600 * i.h + 60 * i.m + i.s
    ELSE IF i.form = "M:SS" THEN 60 * i.m + i.s
    ELSE IF i.form = "digits" THEN i.s
    ELSE (IF "h" \in i.parts THEN 3600 * i.h ELSE 0)
         + (IF "m" \in i.parts THEN 60 * i.m ELSE 0)
         + (IF "s" \in i.parts THEN i.s ELSE 0)

\* C32: the duration parser reduces "H:MM:SS" to 3600*H + 60*M + S, "M:SS" to
\* 60*M + S, a string of digits to its value, and a text of numbers with units
\* to hours*3600 + minutes*60 + seconds.
C32_SecondsOfEveryForm ==
    norm.pc = "parsed"
    => /\ norm.out.raised = NoError
       /\ norm.out.val = SecondsOf(norm.input)

\* "1:02:34" gives 3754
C32_Witness ==
    /\ norm.pc = "parsed"
    /\ DurationText(norm.input) = <<"1", ":", "0", "2", ":", "3", "4">>
    /\ norm.out.val = 3754

\* "17m 16s" gives 1036, "1h 2m 3s" gives 3723 and "600" gives 600
C32_ExamplesReached ==
    norm.pc = "parsed"
    => /\ DurationText(norm.input) = <<"1", "7", "m", " ", "1", "6", "s">>
          => norm.out.val = 1036
       /\ DurationText(norm.input) = <<"1", "h", " ", "2", "m", " ", "3", "s">>
          => norm.out.val = 3723
       /\ DurationText(norm.input) = <<"6", "0", "0">> => norm.out.val = 600

(***************************************************************************)
(* Properties of the progress callback.                                    *)
(***************************************************************************)
\* the step is the registry update of lines 422-424 of a callback of t
UpdatesEntry(t) ==
    /\ cb[t].pc = "update"
    /\ cb'[t].pc = "idle"
    /\ Registered(t)
    /\ t \in DOMAIN active_downloads'

\* the ticks between the previous update of the entry and this callback
Elapsed(t) == cb[t].current_time - active_downloads[t].last_update

\* more than 0.5 s
IntervalElapsed(t) == 2 * Elapsed(t) > TicksPerSecond

\* the step is the choice of the speed, lines 417-421, of a callback of t
ChoosesSpeed(t) ==
    /\ cb[t].pc = "speed"
    /\ cb'[t].pc = "update"
    /\ Registered(t)

\* two speeds are the same number of bits per second
SameSpeed(a, b) == a.num * b.den = b.num * a.den

C34_NonNegativePosition ==
    \A t \in DOMAIN active_downloads :
        /\ active_downloads[t].progress >= 0
        /\ active_downloads[t].total >= 0

\* a negative speed is stored after a fallback call restarted the position
C34_AfterFallbackRestart ==
    \E t \in DOMAIN active_downloads :
        /\ Len(calls[t]) >= 2
        /\ calls[t][1].raised
        /\ active_downloads[t].speed_bps.num < 0

\* no token occurs twice in the sequence
NoDuplicates(qs) == \A i, j \in 1..Len(qs) : qs[i] = qs[j] => i = j

\* the tokens of qs in the order of their first occurrence
RECURSIVE FirstOccurrences(_, _)
FirstOccurrences(qs, acc) ==
    IF qs = <<>> THEN acc
    ELSE FirstOccurrences(Tail(qs),
             IF Head(qs) \in Range(acc) THEN acc ELSE Append(acc, Head(qs)))

\* C35: the qualities of every record the normalizer returns hold no token
\* twice and keep the tokens of the provider in the order of their first
\* occurrence.
C35_QualitiesDeduplicated ==
    (norm.pc = "done" /\ norm.out.raised = NoError)
    => /\ NoDuplicates(norm.out.data.qualities)
       /\ (norm.video.found # <<>> /\ norm.out.data.title # ErrorTitle)
          => norm.out.data.qualities = FirstOccurrences(norm.video.found, <<>>)

\* C35, the part that holds: the tokens the provider lists are returned in the
\* order of the provider, each as often as the provider lists it.
C35_QualitiesAsListed ==
    (norm.pc = "done" /\ norm.out.raised = NoError
        /\ norm.video.found # <<>> /\ norm.out.data.title # ErrorTitle)
    => norm.out.data.qualities = norm.video.found

(***************************************************************************)
(* Properties of concurrent transfers.                                     *)
(***************************************************************************)
\* the files a provider call of a transfer other than t wrote
FilesOfOthers(t) ==
    {p \in Paths : fs.file[p] # NoFile /\ fs.file[p].by \in DownloadIds \ {t}}

\* C36: the reconciliation of one XVideos transfer never renames or deletes a
\* file that the provider call of the other transfer created, and never puts
\* such a file at its own final path.
C36_ReconcileLeavesOthersFiles ==
    [][\A t \in DownloadIds :
          (pc[t] = "xv_reconcile" /\ pc'[t] # pc[t])
          => /\ \A p \in FilesOfOthers(t) : fs'.file[p] = fs.file[p]
             /\ fs'.file[OutFile(t)] # fs.file[OutFile(t)]
                => fs'.file[OutFile(t)].by = t]_vars

\* C36, the part that holds: no step of a transfer other than its
\* reconciliation touches a file of the other transfer that is not at its own
\* final path.
C36_OtherStepsLeaveOthersFiles ==
    [][\A t \in DownloadIds :
          (pc'[t] # pc[t] /\ pc[t] # "xv_reconcile")
          => \A p \in FilesOfOthers(t) \ {OutFile(t)} :
                 fs'.file[p] = fs.file[p]]_vars

\* every fetch has run and has ended
AllFetchesEnded == \A f \in FetchIds : fetch[f].pc = "done"

\* C37: after all overlapping fetches with delay overrides have ended, the
\* shared request delay is the value it had before the first of them started.
C37_DelayRestoredAfterOverlap ==
    AllFetchesEnded
    => \A f \in FetchIds : settings.request_delay = fetch[f].pre_call_delay

\* C37, the part that holds: when no fetch started while another one was
\* running (each saved the pre-call value), the delay is restored at the end.
C37_DelayRestoredInSequence ==
    (AllFetchesEnded
        /\ \A f \in FetchIds : fetch[f].original_delay = fetch[f].pre_call_delay)
    => \A f \in FetchIds : settings.request_delay = fetch[f].pre_call_delay

(***************************************************************************)
(* C38: the frame of the progress callback.                                *)
(***************************************************************************)
\* this step is a step of the progress callback of transfer t
CallbackStep(t) == cb'[t] # cb[t]

\* the keys of an entry the callback's update does not name
KeptFields == {"id", "filename", "status", "unit"}

\* C38: a step of the progress callback of transfer t leaves the set of
\* registered transfers as it was, leaves every other transfer's entry as it
\* was, and leaves the id, filename, status and unit of t's own entry as they
\* were: only progress, total, speed_bps and last_update may change, also
\* while another transfer runs and reports progress
C38_CallbackChangesOnlyItsProgress ==
    [][\A t \in DownloadIds :
          CallbackStep(t) =>
             /\ DOMAIN active_downloads' = DOMAIN active_downloads
             /\ \A o \in DOMAIN active_downloads :
                   IF o = t
                   THEN \A k \in KeptFields :
                           active_downloads'[o][k] = active_downloads[o][k]
                   ELSE active_downloads'[o] = active_downloads[o]]_vars

\* both transfers are registered, the callback of one has stored a progress
\* report after the executor completed its entry, and the callback of the
\* other is under way
C38_Witness ==
    \E t, o \in DownloadIds :
       /\ t # o
       /\ Registered(t) /\ Registered(o)
       /\ active_downloads[t].status = "COMPLETED"
       /\ active_downloads[t].progress = MaxPos
       /\ active_downloads[t].total = MaxPos
       /\ cb[o].pc = "update"
       /\ active_downloads[o].status = "DOWNLOADING"

(***************************************************************************)
(* The proxy download worker (src/src/app/worker.py) and the cancel        *)
(* endpoint (src/src/app/blueprints/api.py). The worker runs in a thread   *)
(* of its own with a database session of its own; the endpoint runs in the *)
(* thread of its request. Here `cls` holds the committed DownloadLog row,  *)
(* `gen` the worker, `bulk` the cancel request and `norm` the two files of *)
(* the downloads directory.                                                *)
(***************************************************************************)
\* chunks of the response body
MaxChunks == 2
\* line 56: elapsed_time > 2
PollInterval == 2
\* seconds the arrival of one chunk may take
ChunkSeconds == {0, 1, 3}

\* api.py lines 100-108 and worker.py line 11: the row is QUEUED, the worker
\* thread is started, and a cancel request comes at any moment
InitWorker ==
    /\ TransfersOff
    /\ settings = DefaultSettings
    /\ fetch = Off
    /\ cls \in [status : {"QUEUED"}, size_bytes : {0, MaxChunks},
                progress_bytes : {0}, speed_bps : {0}]
    /\ gen = [pc |-> "load", status |-> "none", size_bytes |-> 0,
              downloaded_bytes |-> 0, last_update_bytes |-> 0, elapsed |-> 0,
              left |-> MaxChunks]
    /\ bulk = [pc |-> "new", status |-> "none", committed |-> FALSE,
               published_before |-> FALSE]
    /\ norm = [temp |-> FALSE, final |-> FALSE]

\* worker.py lines 13-20: load the row; leave when it is cancelled already
WorkerLoad ==
    /\ gen.pc = "load"
    /\ gen' = [gen EXCEPT !.status = cls.status, !.size_bytes = cls.size_bytes,
                          !.pc = IF cls.status = "CANCELLED" THEN "exited"
                                 ELSE "begin"]
    /\ UNCHANGED <<tvars, settings, bulk, norm, cls, fetch>>

\* lines 29-30: log_entry.status = DOWNLOADING; db.session.commit()
WorkerBegin ==
    /\ gen.pc = "begin"
    /\ gen' = [gen EXCEPT !.status = "DOWNLOADING", !.pc = "request"]
    /\ cls' = [cls EXCEPT !.status = "DOWNLOADING"]
    /\ UNCHANGED <<tvars, settings, bulk, norm, fetch>>

\* lines 36-47: requests.get and raise_for_status, which may raise; the size of
\* line 40 stays in the session until the next commit; open(temp_filepath, 'wb')
WorkerRequest ==
    /\ gen.pc = "request"
    /\ \/ /\ gen' = [gen EXCEPT !.pc = "failed"]
          /\ UNCHANGED norm
       \/ /\ gen' = [gen EXCEPT !.pc = "stream",
                                !.size_bytes = IF @ = 0 THEN MaxChunks ELSE @]
          /\ norm' = [norm EXCEPT !.temp = TRUE]
    /\ UNCHANGED <<tvars, settings, bulk, cls, fetch>>

\* lines 48-56: the next chunk is written, or the stream raises, or it ends
WorkerChunk ==
    /\ gen.pc = "stream"
    /\ \/ /\ gen.left > 0
          /\ \E d \in ChunkSeconds :
                LET elapsed_time == IF gen.elapsed + d > PollInterval
                                    THEN PollInterval + 1 ELSE gen.elapsed + d
                IN  gen' = [gen EXCEPT !.left = @ - 1,
                                       !.downloaded_bytes = @ + 1,
                                       !.elapsed = elapsed_time,
                                       !.pc = IF elapsed_time > PollInterval
                                              THEN "poll" ELSE "stream"]
       \/ /\ gen.left > 0
          /\ gen' = [gen EXCEPT !.pc = "failed"]
       \/ /\ gen.left = 0
          /\ gen' = [gen EXCEPT !.pc = "rename"]
    /\ UNCHANGED <<tvars, settings, bulk, norm, cls, fetch>>

\* lines 57-60: db.session.refresh(log_entry), then the cancellation test
WorkerPoll ==
    /\ gen.pc = "poll"
    /\ gen' = [gen EXCEPT !.status = cls.status,
                          !.pc = IF cls.status = "CANCELLED" THEN "aborted"
                                 ELSE "progress"]
    /\ UNCHANGED <<tvars, settings, bulk, norm, cls, fetch>>

\* lines 62-70: progress and speed are committed; the status is not assigned,
\* so the UPDATE does not carry it
WorkerProgress ==
    /\ gen.pc = "progress"
    /\ cls' = [cls EXCEPT !.progress_bytes = gen.downloaded_bytes,
                          !.speed_bps = ((gen.downloaded_bytes
                                           - gen.last_update_bytes) * 8)
                                        \div gen.elapsed,
                          !.size_bytes = gen.size_bytes]
    /\ gen' = [gen EXCEPT !.last_update_bytes = gen.downloaded_bytes,
                          !.elapsed = 0, !.pc = "stream"]
    /\ UNCHANGED <<tvars, settings, bulk, norm, fetch>>

\* line 72: os.rename(temp_filepath, final_filepath)
WorkerRename ==
    /\ gen.pc = "rename"
    /\ norm' = [temp |-> FALSE, final |-> TRUE]
    /\ gen' = [gen EXCEPT !.pc = "complete"]
    /\ UNCHANGED <<tvars, settings, bulk, cls, fetch>>

\* lines 74-77
WorkerComplete ==
    /\ gen.pc = "complete"
    /\ cls' = [status |-> "COMPLETED", size_bytes |-> gen.size_bytes,
               progress_bytes |-> gen.size_bytes, speed_bps |-> 0]
    /\ gen' = [gen EXCEPT !.status = "COMPLETED", !.pc = "exited"]
    /\ UNCHANGED <<tvars, settings, bulk, norm, fetch>>

\* lines 80-83: except OperationAborted
WorkerAborted ==
    /\ gen.pc = "aborted"
    /\ norm' = [norm EXCEPT !.temp = FALSE]
    /\ gen' = [gen EXCEPT !.pc = "exited"]
    /\ UNCHANGED <<tvars, settings, bulk, cls, fetch>>

\* lines 84-94: except Exception
WorkerFailed ==
    /\ gen.pc = "failed"
    /\ cls' = [cls EXCEPT !.status = "FAILED", !.speed_bps = 0,
                          !.size_bytes = gen.size_bytes]
    /\ norm' = [norm EXCEPT !.temp = FALSE]
    /\ gen' = [gen EXCEPT !.status = "FAILED", !.pc = "exited"]
    /\ UNCHANGED <<tvars, settings, bulk, fetch>>

\* api.py lines 192-200: the request reads the row and answers 400 unless the
\* download is QUEUED or DOWNLOADING
CancelRead ==
    /\ bulk.pc = "new"
    /\ bulk' = [bulk EXCEPT !.status = cls.status,
                            !.pc = IF cls.status \in {"QUEUED", "DOWNLOADING"}
                                   THEN "commit" ELSE "rejected"]
    /\ UNCHANGED <<tvars, settings, norm, cls, gen, fetch>>

\* api.py lines 202-207
CancelCommit ==
    /\ bulk.pc = "commit"
    /\ cls' = [cls EXCEPT !.status = "CANCELLED", !.speed_bps = 0]
    /\ bulk' = [bulk EXCEPT !.status = "CANCELLED", !.pc = "cancelled",
                            !.committed = TRUE, !.published_before = norm.final]
    /\ UNCHANGED <<tvars, settings, norm, gen, fetch>>

NextWorker ==
    \/ WorkerLoad \/ WorkerBegin \/ WorkerRequest \/ WorkerChunk
    \/ WorkerPoll \/ WorkerProgress \/ WorkerRename \/ WorkerComplete
    \/ WorkerAborted \/ WorkerFailed
    \/ CancelRead \/ CancelCommit

SpecWorker == InitWorker /\ [][NextWorker]_vars

(***************************************************************************)
(* C39: a cancelled proxy download.                                        *)
(***************************************************************************)
\* the cancel endpoint has committed CANCELLED
CancelCommitted == bulk.pc = "cancelled" /\ bulk.committed

\* C39: once the cancel endpoint has committed CANCELLED, the row stays
\* CANCELLED whatever the worker does afterwards: it is never DOWNLOADING or
\* COMPLETED again
C39_CancelledStaysCancelled ==
    CancelCommitted => cls.status \notin {"DOWNLOADING", "COMPLETED"}

\* C39, the file: a download cancelled before its file was published never has
\* its file at the final path
C39_CancelledNeverPublished ==
    (CancelCommitted /\ ~bulk.published_before) => ~norm.final

\* what the code does keep: a worker whose start check or poll read CANCELLED
\* leaves without a file at the final path and without a temporary file
C39_SeenCancellationStopsWorker ==
    (gen.pc = "exited" /\ gen.status = "CANCELLED") =>
        /\ ~norm.final /\ ~norm.temp
        /\ cls.status = "CANCELLED"

\* what the code does keep: a step of the poll (lines 57-70) never changes the
\* status of the row
C39_PollKeepsStatus ==
    [][gen.pc \in {"poll", "progress"} /\ gen' # gen => cls'.status = cls.status]_vars

\* the worker ended by completing after the cancellation was committed
C39_CompletedAfterCancel ==
    /\ bulk.committed
    /\ ~bulk.published_before
    /\ gen.pc = "exited"
    /\ cls.status = "COMPLETED"
    /\ norm.final

====
